---------------------------- MODULE Spec2Model ----------------------------
(***************************************************************************)
(* A model of k8s-observability-mcp: the trace processing of JaegerAPI,    *)
(* the pod triage of PrometheusAPI, the list caches of BaseK8sClient, the  *)
(* exception handling of the API classes and the tool calls of the MCP     *)
(* server.                                                                 *)
(*                                                                         *)
(* Python values are encoded as follows.  A dict whose keys vary is a      *)
(* record of all its possible fields together with the set `keys` of the   *)
(* keys it really holds.  A JSON value carries its JSON type next to its   *)
(* text (Jaeger's own tag encoding: {"key","type","value"}), so that the   *)
(* boolean true and the string "true" are different values.  A string      *)
(* built by str.join is the sequence of its pieces, separators included.   *)
(* A log field's text is the sequence of its lines (what split('\n') gives).*)
(***************************************************************************)
EXTENDS Integers, Sequences, FiniteSets, TLC

VARIABLES
    pc,          \* which operation ran last ("start" before any)
    trace,       \* process_trace: the trace dict handed in
    result,      \* process_trace: what it returned
    store,       \* Jaeger: the traces it holds for the queried service, newest first
    jaegerUp,    \* Jaeger: whether its HTTP API answers (else requests raises)
    call,        \* the arguments of the last operation
    response,    \* what the last get_processed_traces / get_slow_traces returned
    prom,        \* Prometheus: what the instant query of each metric does, or
                 \* the series it holds for the metric
    triage,      \* what get_pod_triage_metrics returned
    cluster,     \* Kubernetes: the pods and services of each namespace
    k8sFault,    \* Kubernetes: "none", or how its client raises: "ApiException"
                 \* (an HTTP error, with a body) or "other" (no connection, no
                 \* kube config: an exception without a body)
    neo4j,       \* Neo4j: whether creating the driver and running a query fail
    targetEnv,   \* the environment variable TARGET_NAMESPACE ("" when unset)
    apis,        \* the API objects: whether each exists, and the lists it read
                 \* from its backing system when it was created
    outcome,     \* how the last operation ended: a value, an error value or
                 \* an exception raised to its caller
    touched,     \* the backing systems the last tool call sent requests to
    namespace,   \* BaseK8sClient.namespace
    podsCache,   \* BaseK8sClient._pods_cache
    servicesCache, \* BaseK8sClient._services_cache
    ret          \* what the last BaseK8sClient operation returned

traceVars == <<trace, result>>
jaegerVars == <<store, jaegerUp, response>>
triageVars == <<prom, triage>>
k8sVars == <<cluster, k8sFault>>
serverVars == <<neo4j, targetEnv, apis, outcome, touched>>
clientVars == <<namespace, podsCache, servicesCache, ret>>

(***************************************************************************)
(* Bounds of the model.                                                    *)
(***************************************************************************)
MaxSpans == 3
MaxStart == 2
MaxDurationSteps == 2
MaxTraces == 2
MaxThreads == 20
MaxCount == 2

(***************************************************************************)
(* Generic helpers.                                                        *)
(***************************************************************************)
RECURSIVE Join(_, _)
\* sep.join(parts): the pieces of the resulting string, in order.
Join(parts, sep) ==
    IF Len(parts) = 0 THEN << >>
    ELSE IF Len(parts) = 1 THEN <<parts[1]>>
    ELSE <<parts[1], sep>> \o Join(Tail(parts), sep)

SeqsUpTo(S, n) == UNION {[1..k -> S] : k \in 0..n}
NonEmptySeqsUpTo(S, n) == UNION {[1..k -> S] : k \in 1..n}

(***************************************************************************)
(* The API objects of the server and what each keeps from its creation.    *)
(***************************************************************************)
K8sFaults == {"none", "ApiException", "other"}

\* A cache of a client is None (set = FALSE) or a stored list.
NoneCache == [set |-> FALSE, items |-> {}]
Stored(names) == [set |-> TRUE, items |-> names]

\* An API object: its namespace, the lists its __init__ read (self.pods,
\* self.services) and the two caches of its BaseK8sClient.  None is NoApi.
NoApi ==
    [created |-> FALSE, namespace |-> "", pods |-> {}, services |-> {},
     podsCache |-> NoneCache, servicesCache |-> NoneCache]
Api(pods, services) ==
    [created |-> TRUE, namespace |-> "shop", pods |-> pods, services |-> services,
     podsCache |-> Stored(pods), servicesCache |-> Stored(services)]

\* A DataGraph object: whether self.driver is not None, and self.services.
NoGraph == [created |-> FALSE, driver |-> FALSE, services |-> {}]
Graph(driver, services) == [created |-> TRUE, driver |-> driver, services |-> services]

NoApis == [prometheus |-> NoApi, datagraph |-> NoGraph, log |-> NoApi, jaeger |-> NoApi]

\* The objects as created over a cluster whose namespace holds the pod
\* cart-1 and the services cart and headless, and a graph of two services.
HealthyApis ==
    [prometheus |-> Api({"cart-1"}, {"cart", "headless"}),
     datagraph |-> Graph(TRUE, {"frontend", "cart"}),
     log |-> Api({"cart-1"}, {"cart", "headless"}),
     jaeger |-> Api({}, {"cart", "headless"})]

HealthyNeo4j == [driverFails |-> FALSE, queryFails |-> FALSE]

\* What the last call did: the operation, whether it returned a value, an
\* error value or raised, and the API objects it created.
NoOutcome == [op |-> "none", kind |-> "value", created |-> {}]

(***************************************************************************)
(* Texts as sequences of characters.                                       *)
(***************************************************************************)
\* keyword in text
Contains(text, keyword) ==
    \E i \in 0..(Len(text) - Len(keyword)) :
        \A j \in 1..Len(keyword) : text[i + j] = keyword[j]

(***************************************************************************)
(* JaegerAPI.process_trace                                                 *)
(***************************************************************************)
\* `not span.get("references")`: the key is absent or its list is empty.
NoReferences(span) == ~span.hasReferences \/ span.references = << >>

RECURSIVE FirstRootFrom(_, _)
FirstRootFrom(spans, i) ==
    IF i > Len(spans) THEN 0
    ELSE IF NoReferences(spans[i]) THEN i
    ELSE FirstRootFrom(spans, i + 1)

RECURSIVE LastRootFrom(_, _)
LastRootFrom(spans, i) ==
    IF i < 1 THEN 0
    ELSE IF NoReferences(spans[i]) THEN i
    ELSE LastRootFrom(spans, i - 1)

\* A loop that forgets its `break`: the last root span wins.
RootIndexNoBreak(spans) == LastRootFrom(spans, Len(spans))

\* The index in trace["spans"] of the root span, 0 when the loop finds none.
RootIndex(spans) == FirstRootFrom(spans, 1)

\* duration / 1000.0 as an exact decimal: whole milliseconds and thousandths.
LatencyMs(duration) == [whole |-> duration \div 1000, thousandths |-> duration % 1000]

\* tag.get("key") == "error" and tag.get("value") is True
IsErrorTag(tag) == tag.key = "error" /\ tag.type = "bool" /\ tag.value = "true"

IsErrorSpan(span) == \E i \in DOMAIN span.tags : IsErrorTag(span.tags[i])

HasError(spans) == \E i \in DOMAIN spans : IsErrorSpan(spans[i])

\* {field['key']: field['value'] for field in log["fields"]}: a later field
\* of the same key overwrites an earlier one.
LogFieldKeys(log) == {log.fields[i].key : i \in DOMAIN log.fields}
LogField(log, key) ==
    LET idx == {i \in DOMAIN log.fields : log.fields[i].key = key}
        last == CHOOSE i \in idx : \A j \in idx : j <= i
    IN log.fields[last].value

\* What one log of an error span adds to error_details.
LogDetails(log) ==
    IF "event" \in LogFieldKeys(log) /\ LogField(log, "event") = <<"error">>
    THEN (IF "message" \in LogFieldKeys(log) THEN <<LogField(log, "message")>> ELSE << >>)
         \o (IF "stack" \in LogFieldKeys(log) THEN <<<<LogField(log, "stack")[1]>>>> ELSE << >>)
    ELSE << >>

RECURSIVE LogsDetails(_)
LogsDetails(logs) ==
    IF logs = << >> THEN << >> ELSE LogDetails(Head(logs)) \o LogsDetails(Tail(logs))

RECURSIVE ErrorDetails(_)
ErrorDetails(spans) ==
    IF spans = << >> THEN << >>
    ELSE (IF IsErrorSpan(Head(spans)) THEN LogsDetails(Head(spans).logs) ELSE << >>)
         \o ErrorDetails(Tail(spans))

ErrorMessage(spans) ==
    IF ErrorDetails(spans) = << >> THEN <<<<"N/A">>>> ELSE Join(ErrorDetails(spans), <<"; ">>)

\* sorted(trace["spans"], key=lambda s: s["startTime"]): a stable sort.
RECURSIVE InsertByStart(_, _)
InsertByStart(sorted, span) ==
    IF sorted = << >> THEN <<span>>
    ELSE IF Head(sorted).startTime <= span.startTime
         THEN <<Head(sorted)>> \o InsertByStart(Tail(sorted), span)
         ELSE <<span>> \o sorted

RECURSIVE SortedFrom(_, _)
SortedFrom(spans, acc) ==
    IF spans = << >> THEN acc
    ELSE SortedFrom(Tail(spans), InsertByStart(acc, Head(spans)))

\* A sort that takes the spans as they come.
UnsortedSpans(spans) == spans

SortedSpans(spans) == SortedFrom(spans, << >>)

\* service_map.get(span["processID"]); "" stands for Python's None (a
\* missing key).  Jaeger stores no empty service name, so "" is no name.
ServiceOf(processes, span) ==
    IF span.processID \in DOMAIN processes THEN processes[span.processID].serviceName ELSE ""

RECURSIVE SequenceFrom(_, _, _)
SequenceFrom(processes, spans, last) ==
    IF spans = << >> THEN << >>
    ELSE LET name == ServiceOf(processes, Head(spans))
         IN IF name # "" /\ name # last
            THEN <<name>> \o SequenceFrom(processes, Tail(spans), name)
            ELSE SequenceFrom(processes, Tail(spans), last)

ServiceSequence(tr) == SequenceFrom(tr.processes, SortedSpans(tr.spans), "")

NoResult ==
    [returned |-> "None", keys |-> {}, traceID |-> "", latency_ms |-> LatencyMs(0),
     has_error |-> FALSE, sequence |-> << >>, error_message |-> << >>]

process_trace(tr) ==
    LET root == RootIndex(tr.spans)
        err == HasError(tr.spans)
    IN IF root = 0 THEN NoResult
       ELSE [returned |-> "dict",
             keys |-> {"traceID", "latency_ms", "has_error", "sequence"}
                      \cup (IF err THEN {"error_message"} ELSE {}),
             traceID |-> tr.traceID,
             latency_ms |-> LatencyMs(tr.spans[root].duration),
             has_error |-> err,
             sequence |-> Join(ServiceSequence(tr), " -> "),
             error_message |-> IF err THEN ErrorMessage(tr.spans) ELSE << >>]

(***************************************************************************)
(* JaegerAPI.get_jaeger_traces, get_processed_traces, get_slow_traces      *)
(***************************************************************************)
NoCall == [op |-> "none"]
NoResponse ==
    [keys |-> {}, error |-> "", service |-> "", traces |-> << >>, traces_count |-> 0]

DefaultLimit == 20
SlowLimit == 30

\* The services JaegerAPI.__init__ read from Kubernetes (self.services).
JaegerServices == apis.jaeger.services

\* int(min_latency_ms): Python truncates the fraction.
IntOf(ms) == ms.whole

\* The query parameters get_jaeger_traces sends.
QueryParams(service, limit, min_latency_ms, only_errors) ==
    [service |-> service, limit |-> limit,
     hasMinDuration |-> min_latency_ms.given,
     minDurationMs |-> IF min_latency_ms.given THEN IntOf(min_latency_ms) ELSE 0,
     hasTags |-> only_errors,
     tags |-> IF only_errors THEN [key |-> "error", value |-> "true"] ELSE [key |-> "", value |-> ""]]

\* Jaeger's side of GET /api/traces: a trace is found when one of its spans
\* meets every criterion; a tag criterion compares the text of the tag's
\* value, whatever its type; minDuration is compared with the span's
\* duration (microseconds); at most `limit` traces are returned.
JaegerSpanMatches(span, params) ==
    /\ params.hasTags =>
          \E k \in DOMAIN span.tags :
              span.tags[k].key = params.tags.key /\ span.tags[k].value = params.tags.value
    /\ params.hasMinDuration => span.duration >= 1000 * params.minDurationMs

JaegerFind(held, params) ==
    LET found == SelectSeq(held, LAMBDA tr : \E i \in DOMAIN tr.spans : JaegerSpanMatches(tr.spans[i], params))
    IN SubSeq(found, 1, IF Len(found) < params.limit THEN Len(found) ELSE params.limit)

\* What get_jaeger_traces returns: the traces, or None (returned = FALSE)
\* when requests raises.
get_jaeger_traces(service, limit, min_latency_ms, only_errors) ==
    IF jaegerUp
    THEN [returned |-> TRUE, traces |-> JaegerFind(store, QueryParams(service, limit, min_latency_ms, only_errors))]
    ELSE [returned |-> FALSE, traces |-> << >>]

NoMinLatency == [given |-> FALSE, whole |-> 0, thousandths |-> 0]

RECURSIVE ProcessAll(_)
\* for trace in traces: append process_trace(trace) when it is not None.
ProcessAll(traces) ==
    IF traces = << >> THEN << >>
    ELSE LET data == process_trace(Head(traces))
         IN (IF data.returned = "dict" THEN <<data>> ELSE << >>) \o ProcessAll(Tail(traces))

get_processed_traces(self, service, only_errors) ==
    IF service \notin self.services
    THEN [NoResponse EXCEPT !.keys = {"error"}, !.error = "does not exist"]
    ELSE LET got == get_jaeger_traces(service, DefaultLimit, NoMinLatency, only_errors)
         IN IF ~got.returned
            THEN [NoResponse EXCEPT !.keys = {"service", "traces", "error"},
                                    !.service = service, !.error = "Failed to fetch traces from Jaeger"]
            ELSE IF got.traces = << >>
            THEN [NoResponse EXCEPT !.keys = {"service", "traces", "info"}, !.service = service]
            ELSE LET processed == ProcessAll(got.traces)
                 IN [NoResponse EXCEPT !.keys = {"service", "traces", "traces_count"},
                                       !.service = service, !.traces = processed,
                                       !.traces_count = Len(processed)]

LatencyKey(data) == 1000 * data.latency_ms.whole + data.latency_ms.thousandths

RECURSIVE InsertSlowest(_, _)
InsertSlowest(sorted, data) ==
    IF sorted = << >> THEN <<data>>
    ELSE IF LatencyKey(Head(sorted)) >= LatencyKey(data)
         THEN <<Head(sorted)>> \o InsertSlowest(Tail(sorted), data)
         ELSE <<data>> \o sorted

RECURSIVE SlowestFirstFrom(_, _)
SlowestFirstFrom(list, acc) ==
    IF list = << >> THEN acc
    ELSE SlowestFirstFrom(Tail(list), InsertSlowest(acc, Head(list)))

\* The list left in the order the traces were fetched.
FetchOrder(list) == list

\* list.sort(key=latency_ms, reverse=True): stable, slowest first.
SlowestFirst(list) == SlowestFirstFrom(list, << >>)

get_slow_traces(self, service, min_duration_ms, only_errors) ==
    IF service \notin self.services
    THEN [NoResponse EXCEPT !.keys = {"error"}, !.error = "does not exist"]
    ELSE LET got == get_jaeger_traces(service, SlowLimit, min_duration_ms, only_errors)
         IN IF ~got.returned \/ got.traces = << >>
            THEN [NoResponse EXCEPT !.keys = {"service", "traces", "info"}, !.service = service]
            ELSE LET processed == SlowestFirst(ProcessAll(got.traces))
                 IN [NoResponse EXCEPT !.keys = {"service", "traces", "traces_count"},
                                       !.service = service, !.traces = processed,
                                       !.traces_count = Len(processed)]

(***************************************************************************)
(* PrometheusAPI.get_pod_metrics and get_pod_triage_metrics                *)
(***************************************************************************)
NormalMetrics ==
    {"container_cpu_usage_seconds_total", "container_cpu_user_seconds_total",
     "container_cpu_system_seconds_total", "container_cpu_cfs_throttled_seconds_total",
     "container_cpu_cfs_throttled_periods_total", "container_cpu_cfs_periods_total",
     "container_cpu_load_average_10s", "container_memory_cache",
     "container_memory_usage_bytes", "container_memory_working_set_bytes",
     "container_memory_rss", "container_memory_mapped_file", "container_spec_cpu_period",
     "container_spec_cpu_quota", "container_spec_memory_limit_bytes",
     "container_spec_cpu_shares", "container_threads", "container_threads_max",
     "container_network_receive_errors_total",
     "container_network_receive_packets_dropped_total",
     "container_network_receive_packets_total", "container_network_receive_bytes_total",
     "container_network_transmit_bytes_total", "container_network_transmit_errors_total",
     "container_network_transmit_packets_dropped_total",
     "container_network_transmit_packets_total"}

NetworkMetrics ==
    {"container_network_receive_errors_total",
     "container_network_receive_packets_dropped_total",
     "container_network_receive_packets_total", "container_network_receive_bytes_total",
     "container_network_transmit_bytes_total", "container_network_transmit_errors_total",
     "container_network_transmit_packets_dropped_total",
     "container_network_transmit_packets_total"}

\* list(set(normal_metrics + network_metrics))
AllMetrics == NormalMetrics \cup NetworkMetrics

\* The pods PrometheusAPI.__init__ read from Kubernetes (self.pods).
PromPods == apis.prometheus.pods

\* A metric of the result: a float, None, or the text "Error: ...".
PyFloat(v) == [kind |-> "float", v |-> v]
PyNone == [kind |-> "None", v |-> 0]
PyErrorText == [kind |-> "Error", v |-> 0]

\* The characters of the names pods have.
NameChars(name) ==
    IF name = "cart-1" THEN <<"c", "a", "r", "t", "-", "1">>
    ELSE IF name = "cart-10" THEN <<"c", "a", "r", "t", "-", "1", "0">>
    ELSE IF name = "cart-2" THEN <<"c", "a", "r", "t", "-", "2">>
    ELSE IF name = "db-0" THEN <<"d", "b", "-", "0">>
    ELSE <<"g", "h", "o", "s", "t">>

\* pod=~".*{pod_name}.*": the label holds the name somewhere.
PodLabelMatches(label, pod_name) == Contains(NameChars(label), NameChars(pod_name))

\* custom_query of a metric for a pod.  prom[metric] is what the query does
\* (raise, an empty answer, a series without 'value', a sample) or the
\* series Prometheus holds for the metric, in the order it returns them:
\* then the answer holds the series whose pod label matches, and the code
\* reads the first, data[0].
custom_query(metric, pod_name) ==
    IF prom[metric].does # "series" THEN prom[metric]
    ELSE LET data == SelectSeq(prom[metric].series,
                               LAMBDA s : PodLabelMatches(s.pod, pod_name))
         IN IF data = << >> THEN [does |-> "empty", v |-> 0]
            ELSE [does |-> "sample", v |-> data[1].v]

\* One metric of get_pod_metrics from what its query does: an empty answer
\* or a first series without 'value' gives None, a sample its float, an
\* exception the error text.
MetricOf(answer) ==
    IF answer.does = "sample" THEN PyFloat(answer.v)
    ELSE IF answer.does = "raise" THEN PyErrorText
    ELSE PyNone

get_pod_metrics(self, pod_name) ==
    IF pod_name \notin self.pods
    THEN [keys |-> {"resource_type", "resource_namespace", "resource_name", "metrics", "error"},
          metricKeys |-> {}, metrics |-> [m \in AllMetrics |-> PyNone]]
    ELSE [keys |-> {"resource_type", "resource_namespace", "resource_name", "metrics"},
          metricKeys |-> AllMetrics,
          metrics |-> [m \in AllMetrics |-> MetricOf(custom_query(m, pod_name))]]

\* metrics.get(name): None when the metric is no key.
MetricGet(data, name) == IF name \in data.metricKeys THEN data.metrics[name] ELSE PyNone

Reason(level, metric, a, b) == [level |-> level, metric |-> metric, a |-> a, b |-> b]

\* What one rule does to triage_result: nothing, or is_anomalous = True and
\* one reason appended; or Python raises TypeError, when a str (an error
\* text) is compared with or divided by a number.
RuleMiss == [raised |-> FALSE, anomalous |-> FALSE, reasons |-> << >>]
RuleTypeError == [raised |-> TRUE, anomalous |-> FALSE, reasons |-> << >>]

\* A rule that appends its reason and forgets the flag.
RuleHitNoFlag(reason) == [raised |-> FALSE, anomalous |-> FALSE, reasons |-> <<reason>>]

RuleHit(reason) == [raised |-> FALSE, anomalous |-> TRUE, reasons |-> <<reason>>]

\* A threshold that is reached, not exceeded.
RatioAtLeast95(threads, threads_max) == 100 * threads >= 95 * threads_max

\* thread_ratio > 0.95 with thread_ratio = threads / threads_max, threads_max > 0.
RatioAbove95(threads, threads_max) == 100 * threads > 95 * threads_max

\* Triage Rule 1: Thread Saturation
ThreadRule(data) ==
    LET threads == MetricGet(data, "container_threads")
        threads_max == MetricGet(data, "container_threads_max")
    IN IF threads.kind = "None" \/ threads_max.kind = "None" THEN RuleMiss
       ELSE IF threads_max.kind = "Error" THEN RuleTypeError
       ELSE IF ~(threads_max.v > 0) THEN RuleMiss
       ELSE IF threads.kind = "Error" THEN RuleTypeError
       ELSE IF RatioAbove95(threads.v, threads_max.v)
            THEN RuleHit(Reason("CRITICAL", "container_threads", threads.v, threads_max.v))
            ELSE RuleMiss

\* Triage Rule 2: High CPU Load
CpuRule(data) ==
    LET cpu_load == MetricGet(data, "container_cpu_load_average_10s")
    IN IF cpu_load.kind = "None" THEN RuleMiss
       ELSE IF cpu_load.kind = "Error" THEN RuleTypeError
       ELSE IF cpu_load.v > 10
            THEN RuleHit(Reason("WARNING", "container_cpu_load_average_10s", cpu_load.v, 0))
            ELSE RuleMiss

\* network_checks, in the order of the dict.
NetworkChecks ==
    <<"container_network_receive_errors_total", "container_network_transmit_errors_total",
      "container_network_receive_packets_dropped_total",
      "container_network_transmit_packets_dropped_total">>

\* value > 1
NetworkFlagged(value) == value > 1

\* One counter of Triage Rule 3.
NetworkCheck(data, metric) ==
    LET value == MetricGet(data, metric)
    IN IF value.kind = "None" THEN RuleMiss
       ELSE IF value.kind = "Error" THEN RuleTypeError
       ELSE IF NetworkFlagged(value.v) THEN RuleHit(Reason("INFO", metric, value.v, 0))
       ELSE RuleMiss

\* Two steps of the triage, one after the other.
Then(first, second) ==
    IF first.raised \/ second.raised THEN RuleTypeError
    ELSE [raised |-> FALSE, anomalous |-> first.anomalous \/ second.anomalous,
          reasons |-> first.reasons \o second.reasons]

RECURSIVE NetworkRuleFrom(_, _)
\* Triage Rule 3: Network Errors & Drops
NetworkRuleFrom(data, checks) ==
    IF checks = << >> THEN RuleMiss
    ELSE Then(NetworkCheck(data, Head(checks)), NetworkRuleFrom(data, Tail(checks)))

NetworkRule(data) == NetworkRuleFrom(data, NetworkChecks)

NoTriage ==
    [raised |-> FALSE, is_anomalous |-> FALSE, reasons |-> << >>, checked_metrics |-> {}]

get_pod_triage_metrics(self, pod_name) ==
    LET pod_data == get_pod_metrics(self, pod_name)
        rules == Then(ThreadRule(pod_data), Then(CpuRule(pod_data), NetworkRule(pod_data)))
    IN IF "error" \in pod_data.keys
       THEN [raised |-> FALSE, is_anomalous |-> TRUE,
             reasons |-> <<Reason("error", "", 0, 0)>>, checked_metrics |-> pod_data.metricKeys]
       ELSE IF rules.raised
       THEN [NoTriage EXCEPT !.raised = TRUE]
       ELSE [raised |-> FALSE, is_anomalous |-> rules.anomalous,
             reasons |-> rules.reasons, checked_metrics |-> pod_data.metricKeys]

(***************************************************************************)
(* BaseK8sClient: the namespace, the two list caches and the operations    *)
(* that read Kubernetes.  A list of names is modelled as the set of its    *)
(* names.  Every operation takes the client object, self.                  *)
(***************************************************************************)
Namespaces == {"default", "shop", "infra"}

\* os.environ.get("TARGET_NAMESPACE", "default"); "" stands for unset.
EnvNamespace(env) == IF env = "" THEN "default" ELSE env

\* __init__: namespace or os.environ.get("TARGET_NAMESPACE", "default");
\* the argument None is "".
InitNamespace(arg, env) == IF arg # "" THEN arg ELSE EnvNamespace(env)

\* Whether a request to Kubernetes is answered.
K8sUp == k8sFault = "none"

\* The labels of a pod and the selector of a service, as sets of
\* <<key, value>> pairs.
PodLabels(pod) == IF pod \in DOMAIN cluster.labels THEN cluster.labels[pod] ELSE {}
ServiceSelector(service) ==
    IF service \in DOMAIN cluster.selectors THEN cluster.selectors[service] ELSE {}

\* list_namespaced_service(namespace) / list_service_for_all_namespaces()
ListServices(self) ==
    IF self.namespace # "" THEN cluster.services[self.namespace]
    ELSE UNION {cluster.services[n] : n \in Namespaces}

\* list_namespaced_pod(namespace)
ListPods(self) == cluster.pods[self.namespace]

\* What a list operation does: the cache it leaves, the list it returns and
\* the number of requests it sent to Kubernetes.
ListOutcome(cache, names, requests) == [cache |-> cache, names |-> names, requests |-> requests]

\* A get_services_list that ignores its cache.
get_services_list_uncached(self, use_cache) ==
    IF K8sUp THEN ListOutcome(Stored(ListServices(self)), ListServices(self), 1)
    ELSE ListOutcome(self.servicesCache, {}, 1)

get_services_list(self, use_cache) ==
    IF ~use_cache \/ ~self.servicesCache.set
    THEN IF K8sUp THEN ListOutcome(Stored(ListServices(self)), ListServices(self), 1)
         ELSE ListOutcome(self.servicesCache, {}, 1)
    ELSE ListOutcome(self.servicesCache, self.servicesCache.items, 0)

\* A get_pods_list that ignores its cache.
get_pods_list_uncached(self, use_cache) ==
    IF K8sUp THEN ListOutcome(Stored(ListPods(self)), ListPods(self), 1)
    ELSE ListOutcome(self.podsCache, {}, 1)

get_pods_list(self, use_cache) ==
    IF ~use_cache \/ ~self.podsCache.set
    THEN IF K8sUp THEN ListOutcome(Stored(ListPods(self)), ListPods(self), 1)
         ELSE ListOutcome(self.podsCache, {}, 1)
    ELSE ListOutcome(self.podsCache, self.podsCache.items, 0)

\* The result dict of an operation: its keys, the names in its list and the
\* requests the operation sent to Kubernetes.
Ret(keys, names, requests) == [keys |-> keys, names |-> names, requests |-> requests]
NoRet == Ret({}, {}, 0)

\* The pods list_namespaced_pod(namespace, label_selector=...) selects.
PodsSelectedBy(self, selector) == {p \in cluster.pods[self.namespace] : selector \subseteq PodLabels(p)}

get_pods_from_service(self, service) ==
    LET listed == get_services_list(self, TRUE)
        base == {"service_name", "namespace", "pods"}
    IN IF service \notin listed.names
       THEN [cache |-> listed.cache, ret |-> Ret(base \cup {"error"}, {}, listed.requests)]
       ELSE IF ~K8sUp \/ service \notin cluster.services[self.namespace]
       THEN \* read_namespaced_service raises
            [cache |-> listed.cache, ret |-> Ret(base \cup {"error"}, {}, listed.requests + 1)]
       ELSE IF ServiceSelector(service) = {}
       THEN [cache |-> listed.cache, ret |-> Ret(base \cup {"error"}, {}, listed.requests + 1)]
       ELSE [cache |-> listed.cache,
             ret |-> Ret(base, PodsSelectedBy(self, ServiceSelector(service)), listed.requests + 2)]

\* A selector that needs only one of its pairs among the labels.
SelectorMatchesAny(selector, labels) == \E kv \in selector : kv \in labels

\* all(pod_labels.get(k) == v for k, v in selector.items())
SelectorMatches(selector, labels) == \A kv \in selector : kv \in labels

get_services_from_pod(self, pod_name) ==
    LET listed == get_pods_list(self, TRUE)
        base == {"pod_name", "namespace", "services"}
        selecting == {s \in cluster.services[self.namespace] :
                        ServiceSelector(s) # {} /\ SelectorMatches(ServiceSelector(s), PodLabels(pod_name))}
    IN IF pod_name \notin listed.names
       THEN [cache |-> listed.cache, ret |-> Ret(base \cup {"error"}, {}, listed.requests)]
       ELSE IF ~K8sUp \/ pod_name \notin cluster.pods[self.namespace]
       THEN \* read_namespaced_pod raises
            [cache |-> listed.cache, ret |-> Ret(base \cup {"error"}, {}, listed.requests + 1)]
       ELSE IF PodLabels(pod_name) = {}
       THEN [cache |-> listed.cache, ret |-> Ret(base \cup {"error"}, {}, listed.requests + 1)]
       ELSE [cache |-> listed.cache,
             ret |-> Ret(base \cup (IF selecting = {} THEN {"info"} ELSE {}), selecting,
                         listed.requests + 2)]

(***************************************************************************)
(* LogAPI.get_pod_logs.  A text is the sequence of its lines, a line the   *)
(* sequence of its characters.                                             *)
(***************************************************************************)
LowerToUpper ==
    "a" :> "A" @@ "b" :> "B" @@ "c" :> "C" @@ "d" :> "D" @@ "e" :> "E" @@ "f" :> "F" @@ "g" :> "G" @@ "h" :> "H" @@ "i" :> "I" @@ "j" :> "J" @@ "k" :> "K" @@ "l" :> "L" @@ "m" :> "M" @@
    "n" :> "N" @@ "o" :> "O" @@ "p" :> "P" @@ "q" :> "Q" @@ "r" :> "R" @@ "s" :> "S" @@ "t" :> "T" @@ "u" :> "U" @@ "v" :> "V" @@ "w" :> "W" @@ "x" :> "X" @@ "y" :> "Y" @@ "z" :> "Z"

\* str.upper(), one character.
UpperChar(c) == IF c \in DOMAIN LowerToUpper THEN LowerToUpper[c] ELSE c

\* line.upper()
Upper(line) == [i \in 1..Len(line) |-> UpperChar(line[i])]

important_keywords ==
    <<<<"E", "R", "R", "O", "R">>,
      <<"W", "A", "R", "N">>,
      <<"C", "R", "I", "T", "I", "C", "A", "L">>,
      <<"F", "A", "T", "A", "L">>,
      <<"P", "A", "N", "I", "C">>,
      <<"E", "X", "C", "E", "P", "T", "I", "O", "N">>,
      <<"F", "A", "I", "L", "U", "R", "E">>,
      <<"F", "A", "I", "L", "E", "D">>,
      <<"T", "I", "M", "E", "O", "U", "T">>,
      <<"R", "E", "F", "U", "S", "E", "D">>,
      <<"D", "E", "N", "I", "E", "D">>,
      <<"U", "N", "R", "E", "A", "C", "H", "A", "B", "L", "E">>,
      <<"R", "E", "S", "T", "A", "R", "T">>,
      <<"C", "R", "A", "S", "H">>,
      <<"K", "I", "L", "L", "E", "D">>,
      <<"O", "O", "M">>,
      <<"5", "x", "x">>,
      <<"5", "0", "0">>,
      <<"5", "0", "3">>,
      <<"5", "0", "2">>,
      <<"4", "x", "x">>,
      <<"4", "0", "1">>,
      <<"4", "0", "3">>,
      <<"4", "0", "4">>,
      <<"C", "O", "N", "N", "E", "C", "T", "I", "O", "N">>,
      <<"D", "I", "S", "K">>>>

\* any(keyword in line.upper() for keyword in important_keywords)
IsImportant(line) ==
    \E k \in DOMAIN important_keywords : Contains(Upper(line), important_keywords[k])

\* What the containers of a pod have logged, oldest line first.
PodLog(pod) == IF pod \in DOMAIN cluster.logs THEN cluster.logs[pod] ELSE << >>

\* read_namespaced_pod_log(tail_lines=tail): the last `tail` lines.
TailLines(lines, tail) ==
    IF Len(lines) <= tail THEN lines ELSE SubSeq(lines, Len(lines) - tail + 1, Len(lines))

LogResult(kind, count, lines) == [kind |-> kind, count |-> count, lines |-> lines]

\* A get_pod_logs that returns every line as an important entry.
get_pod_logs_unfiltered(self, pod_name, tail, important) ==
    LogResult("Found N important log entries", Len(TailLines(PodLog(pod_name), tail)),
              TailLines(PodLog(pod_name), tail))

get_pod_logs(self, pod_name, tail, important) ==
    IF pod_name \notin self.pods THEN LogResult("does not exist", 0, << >>)
    ELSE IF ~K8sUp \/ pod_name \notin cluster.pods[self.namespace]
    THEN LogResult("Failed to get logs", 0, << >>)
    ELSE LET log_lines == TailLines(PodLog(pod_name), tail)
             filtered_logs == SelectSeq(log_lines, IsImportant)
         IN IF ~important THEN LogResult("logs", 0, log_lines)
            ELSE IF Len(filtered_logs) > 0
            THEN LogResult("Found N important log entries", Len(filtered_logs), filtered_logs)
            ELSE LogResult("No important log entries found", 0, log_lines)

(***************************************************************************)
(* PrometheusAPI.get_pod_metrics_range                                     *)
(***************************************************************************)
RangeValues(values) == [kind |-> "list", values |-> values]
RangeNone == [kind |-> "None", values |-> << >>]
RangeErrorText == [kind |-> "Error", values |-> << >>]

\* One metric of get_pod_metrics_range from what its range query does.
MetricRangeOf(answer) ==
    IF answer.does = "sample" THEN RangeValues(<<answer.v>>)
    ELSE IF answer.does = "raise" THEN RangeErrorText
    ELSE RangeNone

get_pod_metrics_range(self, pod_name) ==
    IF pod_name \notin self.pods
    THEN [keys |-> {"resource_type", "resource_namespace", "resource_name",
                    "time_range_minutes", "step", "metrics", "error"},
          metricKeys |-> {}, metrics |-> [m \in AllMetrics |-> RangeNone]]
    ELSE [keys |-> {"resource_type", "resource_namespace", "resource_name",
                    "time_range_minutes", "step", "metrics"},
          metricKeys |-> AllMetrics,
          metrics |-> [m \in AllMetrics |-> MetricRangeOf(custom_query(m, pod_name))]]

(***************************************************************************)
(* K8sAPI.get_problematic_pods                                             *)
(***************************************************************************)
RestartThreshold == 3

Container(name, state, exit_code, restart_count) ==
    [name |-> name, state |-> state, exit_code |-> exit_code, restart_count |-> restart_count]

\* pod.status of the pods of the cluster.
PodStatus(pod) ==
    IF pod = "cart-1"
    THEN [phase |-> "Running", container_statuses |-> <<Container("cart", "running", 0, 0)>>]
    ELSE IF pod = "cart-2"
    THEN [phase |-> "Running",
          container_statuses |->
              <<Container("cart", "waiting", 0, 2), Container("init", "terminated", 1, 0),
                Container("proxy", "running", 0, 4), Container("done", "terminated", 0, 0)>>]
    ELSE [phase |-> "Pending", container_statuses |-> << >>]

\* The issue of one container: waiting, terminated with an error, restarting
\* often, or none ("").
ContainerIssue(container) ==
    IF container.state = "waiting" THEN "Waiting"
    ELSE IF container.state = "terminated" /\ container.exit_code # 0 THEN "Terminated With Error"
    ELSE IF container.restart_count > RestartThreshold THEN "High Restarts"
    ELSE ""

\* pod_issues of a pod that has container statuses.
PodIssues(pod) ==
    SelectSeq([i \in DOMAIN PodStatus(pod).container_statuses |->
                  ContainerIssue(PodStatus(pod).container_statuses[i])],
              LAMBDA issue : issue # "")

\* A pod without container statuses is passed over by `continue`, Pending or
\* not; another pod is reported when it has an issue.
IsReported(pod) == PodStatus(pod).container_statuses # << >> /\ PodIssues(pod) # << >>

\* The report, its error value (the exception has a body: an ApiException),
\* or the AttributeError of `e.body` on an exception that has none.
get_problematic_pods(self) ==
    IF k8sFault = "ApiException" THEN [kind |-> "error", keys |-> {"error"}, pods |-> {}]
    ELSE IF k8sFault # "none" THEN [kind |-> "raised", keys |-> {}, pods |-> {}]
    ELSE LET reported == {p \in cluster.pods[self.namespace] : IsReported(p)}
         IN [kind |-> "value",
             keys |-> {"problematic_pods"} \cup (IF reported = {} THEN {"info"} ELSE {}),
             pods |-> reported]

(***************************************************************************)
(* JaegerAPI.get_trace                                                     *)
(***************************************************************************)
\* The trace of that id, or None: Jaeger does not answer or has no such trace.
get_trace(trace_id) ==
    LET found == SelectSeq(store, LAMBDA tr : tr.traceID = trace_id)
    IN IF jaegerUp /\ found # << >>
       THEN [returned |-> TRUE, traces |-> <<found[1]>>]
       ELSE [returned |-> FALSE, traces |-> << >>]

(***************************************************************************)
(* DataGraph                                                               *)
(***************************************************************************)
\* The graph Neo4j holds: its Service nodes and what each CALLS and USES.
GraphServices == {"frontend", "cart"}
GraphCalls(service) == IF service = "frontend" THEN {"cart"} ELSE {}
GraphUses(service) == IF service = "cart" THEN {<<"redis", "Database">>} ELSE {}

\* query(): the records, None when the session raises, or the
\* AssertionError of `assert self.driver is not None`.
Query(self, records) ==
    IF ~self.driver THEN [kind |-> "raised", records |-> {}]
    ELSE IF neo4j.queryFails THEN [kind |-> "None", records |-> {}]
    ELSE [kind |-> "records", records |-> records]

\* DataGraph.__init__: the exception of GraphDatabase.driver is logged and
\* self.driver stays None; then self.services = self.get_services().
NewDataGraph ==
    LET self == Graph(~neo4j.driverFails, {})
        q == Query(self, GraphServices)
    IN IF q.kind = "raised" THEN [kind |-> "raised", api |-> NoGraph, queried |-> FALSE]
       ELSE [kind |-> "value", api |-> Graph(TRUE, q.records), queried |-> TRUE]

\* get_services_used_by of a DataGraph that exists (its driver is not None).
get_services_used_by(self, service) ==
    IF service \notin self.services THEN [kind |-> "str", names |-> {}, queried |-> FALSE]
    ELSE [kind |-> "list", names |-> Query(self, GraphCalls(service)).records, queried |-> TRUE]

\* get_dependencies of a DataGraph that exists.
get_dependencies(self, service) ==
    IF service \notin self.services THEN [kind |-> "str", names |-> {}, queried |-> FALSE]
    ELSE LET records == Query(self, GraphUses(service)).records
         IN IF records # {} THEN [kind |-> "dict", names |-> records, queried |-> TRUE]
            ELSE [kind |-> "str", names |-> {}, queried |-> TRUE]

(***************************************************************************)
(* mcp_server: get_apis and the nine tools.  A tool is given the API       *)
(* objects get_apis returned and answers with the objects as it leaves     *)
(* them, the backing systems it sent requests to and the kind of value it  *)
(* returned.                                                               *)
(***************************************************************************)
\* The default of the parameter tail of get_logs and get_pod_logs.
DefaultTail == 100

Systems == {"Kubernetes", "Prometheus", "Jaeger", "Neo4j"}

\* config.target_namespace: os.environ.get("TARGET_NAMESPACE", "default")
TargetNamespace == EnvNamespace(targetEnv)

\* BaseK8sClient.__init__(namespace): no cache yet.
BaseK8sClient(arg) ==
    [created |-> TRUE, namespace |-> InitNamespace(arg, targetEnv), pods |-> {}, services |-> {},
     podsCache |-> NoneCache, servicesCache |-> NoneCache]

\* self.pods = self.get_pods_list() on a client.
WithPods(self) ==
    LET out == get_pods_list(self, TRUE)
    IN [self EXCEPT !.pods = out.names, !.podsCache = out.cache]

\* self.services = self.get_services_list() on a client.
WithServices(self) ==
    LET out == get_services_list(self, TRUE)
    IN [self EXCEPT !.services = out.names, !.servicesCache = out.cache]

PrometheusAPI(namespace_arg) == WithServices(WithPods(BaseK8sClient(namespace_arg)))
LogAPI(namespace_arg) == WithServices(WithPods(BaseK8sClient(namespace_arg)))
\* JaegerAPI passes namespace=None.
JaegerAPI == WithServices(BaseK8sClient(""))

ApiNames == {"prometheus", "datagraph", "log", "jaeger"}
Missing(objects) == {n \in ApiNames : ~objects[n].created}

\* get_apis that creates the four objects whether or not they exist.
get_apis_always_create ==
    LET g == NewDataGraph
    IN IF g.kind = "raised"
       THEN [raised |-> TRUE, apis |-> [apis EXCEPT !.prometheus = PrometheusAPI(TargetNamespace)],
             created |-> {"prometheus"}, touched |-> {"Kubernetes"}]
       ELSE [raised |-> FALSE,
             apis |-> [prometheus |-> PrometheusAPI(TargetNamespace), datagraph |-> g.api,
                       log |-> LogAPI(TargetNamespace), jaeger |-> JaegerAPI],
             created |-> ApiNames, touched |-> {"Kubernetes", "Neo4j"}]

\* get_apis: each object that is None is created, in the order prometheus,
\* datagraph, log, jaeger; the AssertionError of DataGraph() ends it.
get_apis ==
    LET missing == Missing(apis)
        g == IF "datagraph" \in missing THEN NewDataGraph
             ELSE [kind |-> "value", api |-> apis.datagraph, queried |-> FALSE]
        raised == g.kind = "raised"
        p == IF "prometheus" \in missing THEN PrometheusAPI(TargetNamespace) ELSE apis.prometheus
        l == IF "log" \in missing THEN LogAPI(TargetNamespace) ELSE apis.log
        j == IF "jaeger" \in missing THEN JaegerAPI ELSE apis.jaeger
        clients == IF raised THEN missing \cap {"prometheus"} ELSE missing \ {"datagraph"}
    IN [raised |-> raised,
        apis |-> IF raised THEN [apis EXCEPT !.prometheus = p]
                 ELSE [prometheus |-> p, datagraph |-> g.api, log |-> l, jaeger |-> j],
        created |-> IF raised THEN clients ELSE missing,
        touched |-> (IF clients # {} THEN {"Kubernetes"} ELSE {})
                    \cup (IF g.queried THEN {"Neo4j"} ELSE {})]

ToolReturn(objects, sent, kind) == [apis |-> objects, touched |-> sent, kind |-> kind]

Sent(system, requests) == IF requests > 0 THEN {system} ELSE {}

\* The kind of a dict: an error value when it has the key 'error'.
DictKind(keys) == IF "error" \in keys THEN "error" ELSE "value"

\* The pods of a service, for the tools that take resource_type 'service':
\* api.get_pods_from_service(resource_name) on the PrometheusAPI object.
PodsOf(a, resource_name) == get_pods_from_service(a.prometheus, resource_name)
AfterPodsOf(a, out) == [a EXCEPT !.prometheus.servicesCache = out.cache]

get_metrics(a, resource_name, resource_type) ==
    IF resource_type = "pod"
    THEN LET data == get_pod_metrics(a.prometheus, resource_name)
         IN ToolReturn(a, Sent("Prometheus", Cardinality(data.metricKeys)), DictKind(data.keys))
    ELSE LET out == PodsOf(a, resource_name)
             queried == {p \in out.ret.names : get_pod_metrics(a.prometheus, p).metricKeys # {}}
         IN IF "error" \in out.ret.keys
            THEN ToolReturn(AfterPodsOf(a, out), Sent("Kubernetes", out.ret.requests), "error")
            ELSE ToolReturn(AfterPodsOf(a, out),
                            Sent("Kubernetes", out.ret.requests)
                                \cup Sent("Prometheus", Cardinality(queried)), "value")

get_metrics_range(a, resource_name, resource_type) ==
    IF resource_type = "pod"
    THEN LET data == get_pod_metrics_range(a.prometheus, resource_name)
         IN ToolReturn(a, Sent("Prometheus", Cardinality(data.metricKeys)), DictKind(data.keys))
    ELSE LET out == PodsOf(a, resource_name)
             queried == {p \in out.ret.names : get_pod_metrics_range(a.prometheus, p).metricKeys # {}}
         IN IF "error" \in out.ret.keys
            THEN ToolReturn(AfterPodsOf(a, out), Sent("Kubernetes", out.ret.requests), "error")
            ELSE ToolReturn(AfterPodsOf(a, out),
                            Sent("Kubernetes", out.ret.requests)
                                \cup Sent("Prometheus", Cardinality(queried)), "value")

tool_get_pods_from_service(a, service_name) ==
    LET out == PodsOf(a, service_name)
    IN ToolReturn(AfterPodsOf(a, out), Sent("Kubernetes", out.ret.requests), DictKind(out.ret.keys))

get_cluster_pods_and_services(a) ==
    LET pods == get_pods_list(a.prometheus, TRUE)
        services == get_services_list(a.prometheus, TRUE)
    IN ToolReturn([a EXCEPT !.prometheus.podsCache = pods.cache,
                            !.prometheus.servicesCache = services.cache],
                  Sent("Kubernetes", pods.requests + services.requests), "value")

tool_get_services_used_by(a, service) ==
    LET services_used == get_services_used_by(a.datagraph, service)
    IN ToolReturn(a, IF services_used.queried THEN {"Neo4j"} ELSE {},
                  IF services_used.kind = "str" THEN "error" ELSE "value")

tool_get_dependencies(a, service) ==
    LET dependencies == get_dependencies(a.datagraph, service)
    IN ToolReturn(a, IF dependencies.queried THEN {"Neo4j"} ELSE {},
                  IF dependencies.kind = "str" THEN "error" ELSE "value")

\* Whether get_pod_logs asks Kubernetes for the log of the pod.
ReadsLog(self, pod_name) == pod_name \in self.pods

get_logs(a, resource_name, resource_type, tail, important) ==
    IF resource_type = "pod"
    THEN LET logs == get_pod_logs(a.log, resource_name, tail, important)
         IN ToolReturn(a, IF ReadsLog(a.log, resource_name) THEN {"Kubernetes"} ELSE {},
                       IF logs.kind \in {"does not exist", "Failed to get logs"} THEN "error"
                       ELSE "value")
    ELSE LET out == PodsOf(a, resource_name)
             read == {p \in out.ret.names : ReadsLog(a.log, p)}
         IN IF "error" \in out.ret.keys
            THEN ToolReturn(AfterPodsOf(a, out), Sent("Kubernetes", out.ret.requests), "error")
            ELSE ToolReturn(AfterPodsOf(a, out),
                            Sent("Kubernetes", out.ret.requests + Cardinality(read)), "value")

get_traces(a, service_name, only_errors) ==
    LET traces == get_processed_traces(a.jaeger, service_name, only_errors)
    IN ToolReturn(a, IF service_name \in a.jaeger.services THEN {"Jaeger"} ELSE {},
                  DictKind(traces.keys))

tool_get_trace(a, trace_id) ==
    LET found == get_trace(trace_id)
    IN ToolReturn(a, {"Jaeger"}, IF found.returned THEN "value" ELSE "error")

(***************************************************************************)
(* The traces process_trace is applied to.  Three families, each varying   *)
(* the fields one part of the function reads: the references and durations *)
(* (root span), the start times and process ids (service sequence), the    *)
(* tags and logs (errors).                                                 *)
(***************************************************************************)
NoRefKey == [hasReferences |-> FALSE, references |-> << >>]
EmptyRefs == [hasReferences |-> TRUE, references |-> << >>]
ChildRef == [hasReferences |-> TRUE, references |-> <<"CHILD_OF">>]

MkSpan(ref, dur, start, pid, tags, logs) ==
    [hasReferences |-> ref.hasReferences, references |-> ref.references,
     duration |-> dur, startTime |-> start, processID |-> pid, tags |-> tags, logs |-> logs]

DurationVals == {750 * k : k \in 0..MaxDurationSteps}

ErrBool == [key |-> "error", type |-> "bool", value |-> "true"]
ErrBoolFalse == [key |-> "error", type |-> "bool", value |-> "false"]
ErrString == [key |-> "error", type |-> "string", value |-> "true"]
HttpTag == [key |-> "http.status_code", type |-> "int64", value |-> "500"]

TagLists == {<< >>, <<ErrBool>>, <<ErrString>>, <<ErrBoolFalse>>, <<HttpTag, ErrBool>>}

Field(k, v) == [key |-> k, value |-> v]
ErrorLog ==
    [fields |-> <<Field("event", <<"error">>), Field("message", <<"boom">>),
                  Field("stack", <<"Traceback", "line 2">>)>>]
InfoLog == [fields |-> <<Field("event", <<"info">>), Field("message", <<"ok">>)>>]

LogLists == {<< >>, <<ErrorLog>>, <<InfoLog, ErrorLog>>}

OneProcess == [p \in {"p1"} |-> [serviceName |-> "frontend"]]
TwoServices ==
    [p \in {"p1", "p2"} |-> [serviceName |-> IF p = "p1" THEN "frontend" ELSE "cart"]]
SameService == [p \in {"p1", "p2"} |-> [serviceName |-> "frontend"]]

MkTrace(spans, processes) == [traceID |-> "t1", spans |-> spans, processes |-> processes]

RootSpans == {MkSpan(r, d, 1, "p1", << >>, << >>) : r \in {NoRefKey, EmptyRefs, ChildRef}, d \in DurationVals}
SeqSpans == {MkSpan(NoRefKey, 750, t, p, << >>, << >>) : t \in 1..MaxStart, p \in {"p1", "p2", "p9"}}
\* The tags and logs of a span: every tag list without logs, and the logs
\* with the tags that decide whether they are read.
TagsAndLogs ==
    {<<tg, << >>>> : tg \in TagLists}
    \cup {<<<<ErrBool>>, lg>> : lg \in LogLists}
    \cup {<<<<ErrString>>, <<ErrorLog>>>>}

ErrSpans == {MkSpan(ChildRef, 750, 1, "p1", tl[1], tl[2]) : tl \in TagsAndLogs}
ErrFirstSpans == {MkSpan(r, 750, 1, "p1", tl[1], tl[2]) : r \in {NoRefKey, ChildRef}, tl \in TagsAndLogs}

RootTraces == {MkTrace(s, OneProcess) : s \in SeqsUpTo(RootSpans, MaxSpans)}
SeqTraces == {MkTrace(s, p) : s \in NonEmptySeqsUpTo(SeqSpans, MaxSpans), p \in {TwoServices, SameService}}
ErrTraces ==
    {MkTrace(<<f>> \o s, OneProcess) : f \in ErrFirstSpans, s \in SeqsUpTo(ErrSpans, MaxSpans - 1)}

TraceInputs == RootTraces \cup SeqTraces \cup ErrTraces

(***************************************************************************)
(* The traces Jaeger holds: a root span of some duration and a child span  *)
(* with or without an error tag, or a trace whose spans all have           *)
(* references.                                                             *)
(***************************************************************************)
TraceIds == <<"t1", "t2", "t3", "t4", "t5", "t6">>

HeldShapes ==
    {<<MkSpan(NoRefKey, d, 1, "p1", << >>, << >>), MkSpan(ChildRef, 750, 2, "p1", tg, << >>)>> :
        d \in DurationVals, tg \in {<< >>, <<ErrBool>>, <<ErrString>>}}
    \cup {<<MkSpan(ChildRef, 750, 1, "p1", <<ErrBool>>, << >>)>>}

HeldStores ==
    {[k \in 1..Len(shapes) |-> [traceID |-> TraceIds[k], spans |-> shapes[k], processes |-> OneProcess]] :
        shapes \in SeqsUpTo(HeldShapes, MaxTraces)}

\* min_duration_ms: 0.9, 1.0 and 1.5 milliseconds.
MinDurations ==
    {[given |-> TRUE, whole |-> 1, thousandths |-> f] : f \in {0, 500}}
        \cup {[given |-> TRUE, whole |-> 0, thousandths |-> 900]}

(***************************************************************************)
(* The snapshots of Prometheus.                                            *)
(***************************************************************************)
\* The snapshots of Prometheus the triage is applied to: the metrics the
\* rules read vary, every other metric has a sample.
Sample(v) == [does |-> "sample", v |-> v]
EmptyAnswer == [does |-> "empty", v |-> 0]
NoValueKey == [does |-> "novalue", v |-> 0]
QueryRaises == [does |-> "raise", v |-> 0]

ThreadAnswers == {EmptyAnswer, QueryRaises, Sample(0), Sample(MaxThreads - 1), Sample(MaxThreads)}
ThreadMaxAnswers == {EmptyAnswer, QueryRaises, Sample(0), Sample(MaxThreads)}
CpuAnswers == {EmptyAnswer, NoValueKey, QueryRaises, Sample(10), Sample(11)}
CounterAnswers == {EmptyAnswer} \cup {Sample(v) : v \in 0..MaxCount}

QuietSnapshot == [m \in AllMetrics |-> Sample(1)]

Snapshots ==
    {[m \in AllMetrics |->
        IF m = "container_threads" THEN t
        ELSE IF m = "container_threads_max" THEN tm
        ELSE IF m = "container_cpu_load_average_10s" THEN c
        ELSE IF m = NetworkChecks[1] THEN n[1]
        ELSE IF m = NetworkChecks[2] THEN n[2]
        ELSE IF m = NetworkChecks[3] THEN n[3]
        ELSE IF m = NetworkChecks[4] THEN n[4]
        ELSE Sample(1)] :
        t \in ThreadAnswers, tm \in ThreadMaxAnswers, c \in CpuAnswers,
        n \in [1..4 -> CounterAnswers]}

(***************************************************************************)
(* The clusters: the namespace "shop" holds some of two pods and of two     *)
(* services, "infra" holds the tracing service.                            *)
(***************************************************************************)
PodNames == {"cart-1", "cart-2"}
ServiceNames == {"cart", "headless"}

\* The log of the pod cart-1 unless a specification draws another.
CartLog ==
    <<<<"G", "E", "T", " ", "/", "c", "a", "r", "t", " ", "2", "0", "0">>,
      <<"e", "r", "r", "o", "r", ":", " ", "d", "b", " ", "t", "i", "m", "e", "o", "u", "t">>,
      <<"u", "p", "s", "t", "r", "e", "a", "m", " ", "s", "e", "n", "t", " ", "5", "x", "x">>,
      <<"W", "a", "r", "n", "i", "n", "g", ":", " ", "s", "l", "o", "w">>,
      <<"o", "k">>>>

MkCluster(pods, services) ==
    [logs |-> [p \in PodNames |-> IF p = "cart-1" THEN CartLog ELSE << >>],
     labels |-> [p \in PodNames |-> IF p = "cart-1" THEN {<<"app", "cart">>} ELSE {}],
     selectors |-> [s \in ServiceNames |-> IF s = "cart" THEN {<<"app", "cart">>} ELSE {}],
     pods |-> [n \in Namespaces |-> IF n = "shop" THEN pods ELSE {}],
     services |-> [n \in Namespaces |->
                      IF n = "shop" THEN services ELSE IF n = "infra" THEN {"jaeger"} ELSE {}]]

Clusters == {MkCluster(p, s) : p \in SUBSET PodNames, s \in SUBSET ServiceNames}


(***************************************************************************)
(* The backing systems of the failure and tool-call specifications.        *)
(***************************************************************************)
\* Every query of Prometheus raises.
AllRaise == [m \in AllMetrics |-> QueryRaises]

\* Jaeger holds one trace, t1, of one failed span.
OneTraceStore ==
    <<[traceID |-> "t1", spans |-> <<MkSpan(NoRefKey, 750, 1, "p1", <<ErrBool>>, << >>)>>,
       processes |-> OneProcess]>>

Neo4jStates == [driverFails : BOOLEAN, queryFails : BOOLEAN]

\* The API objects with the caches of the PrometheusAPI object unset.
UncachedApis ==
    [HealthyApis EXCEPT !.prometheus.podsCache = NoneCache,
                        !.prometheus.servicesCache = NoneCache]

(***************************************************************************)
(* Pod logs: the lines a container may have written ("" is the empty line  *)
(* split('\n') gives after a final newline) and the logs made of them.     *)
(***************************************************************************)
MaxLogLines == 3

LogLines ==
    {<<"e", "r", "r", "o", "r">>,
     <<"o", "k">>,
     <<"5", "x", "x">>,
     <<"O", "o", "m">>,
     <<"4", "0", "4">>,
     << >>}

PodLogs == SeqsUpTo(LogLines, MaxLogLines)

(***************************************************************************)
(* The series Prometheus holds for a metric: one sample for each pod that  *)
(* has reported, in the order Prometheus returns them.  The sample of a    *)
(* pod tells the pod: 1 for cart-1, 2 for cart-10, 3 for db-0.             *)
(***************************************************************************)
ReportingPods == {"cart-1", "cart-10", "db-0"}

SampleOf(pod) == IF pod = "cart-1" THEN 1 ELSE IF pod = "cart-10" THEN 2 ELSE 3

Held(pods) ==
    [does |-> "series", v |-> 0, series |-> [k \in DOMAIN pods |-> [pod |-> pods[k], v |-> SampleOf(pods[k])]]]

\* The pods that have reported, in every order.
SeriesOrders ==
    {pods \in SeqsUpTo(ReportingPods, Cardinality(ReportingPods)) :
        \A i, j \in DOMAIN pods : i # j => pods[i] # pods[j]}

\* Prometheus holds the same pods for every metric, except that the thread
\* metrics or the network metrics may be missing or fail.
SnapshotsOf(pods) ==
    {[m \in AllMetrics |->
        IF m \in {"container_threads", "container_threads_max"} THEN threads
        ELSE IF m \in NetworkMetrics THEN network
        ELSE Held(pods)] :
        threads \in {Held(pods), QueryRaises, EmptyAnswer},
        network \in {Held(pods), NoValueKey}}

SeriesSnapshots == UNION {SnapshotsOf(pods) : pods \in SeriesOrders}

(***************************************************************************)
(* Labels and selectors: dictionaries over the keys app and tier, as sets  *)
(* of <<key, value>> pairs with one pair for a key at most.                *)
(***************************************************************************)
LabelKeys == {"app", "tier"}
LabelValues == {"cart", "db"}

LabelDicts ==
    {d \in SUBSET (LabelKeys \X LabelValues) :
        \A a, b \in d : a[1] = b[1] => a = b}

\* The pods cart-1 and cart-2 and the services cart and headless in the
\* namespace shop; cart-2 has no labels.
LabelledClusters ==
    {[MkCluster(PodNames, ServiceNames) EXCEPT
        !.labels = [p \in PodNames |-> IF p = "cart-1" THEN labels ELSE {}],
        !.selectors = [s \in ServiceNames |-> IF s = "cart" THEN selector ELSE other]] :
        labels \in LabelDicts, selector \in LabelDicts,
        other \in {{}, {<<"app", "cart">>}}}
(***************************************************************************)
(* The state: all variables, and the values of those an operation leaves   *)
(* alone.                                                                  *)
(***************************************************************************)
vars ==
    <<pc, trace, result, store, jaegerUp, call, response, prom, triage,
      cluster, k8sFault, namespace, podsCache, servicesCache, ret,
      neo4j, targetEnv, apis, outcome, touched>>

TraceIdle ==
    /\ trace = MkTrace(<< >>, OneProcess)
    /\ result = NoResult

JaegerIdle ==
    /\ store = << >>
    /\ jaegerUp = TRUE
    /\ response = NoResponse

TriageIdle ==
    /\ prom = QuietSnapshot
    /\ triage = NoTriage

K8sIdle ==
    /\ cluster = MkCluster({}, {})
    /\ k8sFault = "none"

ClientIdle ==
    /\ namespace = "default"
    /\ podsCache = NoneCache
    /\ servicesCache = NoneCache
    /\ ret = NoRet

ServerIdle ==
    /\ neo4j = HealthyNeo4j
    /\ targetEnv = "shop"
    /\ apis = HealthyApis
    /\ outcome = NoOutcome
    /\ touched = {}

(***************************************************************************)
(* SpecTrace: process_trace applied to every trace of TraceInputs.         *)
(***************************************************************************)
InitTrace ==
    /\ pc = "start"
    /\ trace \in TraceInputs
    /\ result = NoResult
    /\ call = NoCall
    /\ JaegerIdle
    /\ TriageIdle
    /\ K8sIdle
    /\ ClientIdle
    /\ ServerIdle

ProcessTrace ==
    /\ pc = "start"
    /\ result' = process_trace(trace)
    /\ pc' = "process_trace"
    /\ UNCHANGED <<trace, call, jaegerVars, triageVars, k8sVars, clientVars, serverVars>>

SpecTrace == InitTrace /\ [][ProcessTrace]_vars

(***************************************************************************)
(* SpecJaeger: get_processed_traces and get_slow_traces over what Jaeger   *)
(* holds.                                                                  *)
(***************************************************************************)
InitJaeger ==
    /\ pc = "start"
    /\ TraceIdle
    /\ store \in HeldStores
    /\ jaegerUp \in BOOLEAN
    /\ call = NoCall
    /\ response = NoResponse
    /\ TriageIdle
    /\ K8sIdle
    /\ ClientIdle
    /\ ServerIdle

GetProcessedTraces ==
    /\ pc = "start"
    /\ \E service \in {"cart", "ghost"}, only_errors \in BOOLEAN :
          /\ call' = [op |-> "get_processed_traces", service |-> service,
                      only_errors |-> only_errors, min_duration_ms |-> NoMinLatency]
          /\ response' = get_processed_traces(apis.jaeger, service, only_errors)
    /\ pc' = "get_processed_traces"
    /\ UNCHANGED <<traceVars, store, jaegerUp, triageVars, k8sVars, clientVars, serverVars>>

GetSlowTraces ==
    /\ pc = "start"
    /\ \E service \in {"cart", "ghost"}, only_errors \in BOOLEAN, min_duration_ms \in MinDurations :
          /\ call' = [op |-> "get_slow_traces", service |-> service,
                      only_errors |-> only_errors, min_duration_ms |-> min_duration_ms]
          /\ response' = get_slow_traces(apis.jaeger, service, min_duration_ms, only_errors)
    /\ pc' = "get_slow_traces"
    /\ UNCHANGED <<traceVars, store, jaegerUp, triageVars, k8sVars, clientVars, serverVars>>

NextJaeger == GetProcessedTraces \/ GetSlowTraces

SpecJaeger == InitJaeger /\ [][NextJaeger]_vars

(***************************************************************************)
(* SpecTriage: get_pod_triage_metrics over the snapshots of Prometheus.     *)
(***************************************************************************)
InitTriage ==
    /\ pc = "start"
    /\ TraceIdle
    /\ JaegerIdle
    /\ K8sIdle
    /\ ClientIdle
    /\ ServerIdle
    /\ triage = NoTriage
    /\ \/ call = [op |-> "get_pod_triage_metrics", pod_name |-> "cart-1"] /\ prom \in Snapshots
       \/ call = [op |-> "get_pod_triage_metrics", pod_name |-> "ghost"] /\ prom = QuietSnapshot

GetPodTriageMetrics ==
    /\ pc = "start"
    /\ triage' = get_pod_triage_metrics(apis.prometheus, call.pod_name)
    /\ pc' = "get_pod_triage_metrics"
    /\ UNCHANGED <<traceVars, call, jaegerVars, prom, k8sVars, clientVars, serverVars>>

SpecTriage == InitTriage /\ [][GetPodTriageMetrics]_vars

(***************************************************************************)
(* SpecCache: one BaseK8sClient used over a cluster that changes and a     *)
(* Kubernetes API that comes and goes.                                     *)
(***************************************************************************)
InitCache ==
    /\ pc = "start"
    /\ call = NoCall
    /\ TraceIdle
    /\ JaegerIdle
    /\ TriageIdle
    /\ cluster \in Clusters
    /\ k8sFault \in K8sFaults
    /\ \E arg \in {"", "shop"}, env \in {"", "shop", "infra"} : namespace = InitNamespace(arg, env)
    /\ podsCache = NoneCache
    /\ servicesCache = NoneCache
    /\ ret = NoRet
    /\ ServerIdle

\* The client object the operations are called on.
Self ==
    [created |-> TRUE, namespace |-> namespace, pods |-> {}, services |-> {},
     podsCache |-> podsCache, servicesCache |-> servicesCache]

OtherIdle == UNCHANGED <<traceVars, jaegerVars, triageVars, namespace, serverVars>>

GetPodsList ==
    \E use_cache \in BOOLEAN :
        LET out == get_pods_list(Self, use_cache)
        IN /\ pc' = "get_pods_list"
           /\ call' = [op |-> "get_pods_list", use_cache |-> use_cache]
           /\ podsCache' = out.cache
           /\ ret' = Ret({}, out.names, out.requests)
           /\ UNCHANGED <<servicesCache, k8sVars>>
           /\ OtherIdle

GetServicesList ==
    \E use_cache \in BOOLEAN :
        LET out == get_services_list(Self, use_cache)
        IN /\ pc' = "get_services_list"
           /\ call' = [op |-> "get_services_list", use_cache |-> use_cache]
           /\ servicesCache' = out.cache
           /\ ret' = Ret({}, out.names, out.requests)
           /\ UNCHANGED <<podsCache, k8sVars>>
           /\ OtherIdle

GetPodsFromService ==
    \E service \in ServiceNames :
        LET out == get_pods_from_service(Self, service)
        IN /\ pc' = "get_pods_from_service"
           /\ call' = [op |-> "get_pods_from_service", service |-> service]
           /\ servicesCache' = out.cache
           /\ ret' = out.ret
           /\ UNCHANGED <<podsCache, k8sVars>>
           /\ OtherIdle

GetServicesFromPod ==
    \E pod_name \in PodNames :
        LET out == get_services_from_pod(Self, pod_name)
        IN /\ pc' = "get_services_from_pod"
           /\ call' = [op |-> "get_services_from_pod", pod_name |-> pod_name]
           /\ podsCache' = out.cache
           /\ ret' = out.ret
           /\ UNCHANGED <<servicesCache, k8sVars>>
           /\ OtherIdle

RefreshCache ==
    /\ pc' = "refresh_cache"
    /\ call' = [op |-> "refresh_cache"]
    /\ podsCache' = NoneCache
    /\ servicesCache' = NoneCache
    /\ ret' = NoRet
    /\ UNCHANGED k8sVars
    /\ OtherIdle

\* The cluster changes under the client: a pod or a service of the client's
\* world comes or goes, the API becomes reachable or unreachable.
ClusterChanges ==
    /\ \/ cluster' \in Clusters /\ k8sFault' = k8sFault
       \/ cluster' = cluster /\ k8sFault' \in K8sFaults
    /\ pc' = "cluster"
    /\ call' = NoCall
    /\ UNCHANGED <<podsCache, servicesCache, ret>>
    /\ OtherIdle

NextCache ==
    \/ GetPodsList
    \/ GetServicesList
    \/ GetPodsFromService
    \/ GetServicesFromPod
    \/ RefreshCache
    \/ ClusterChanges

SpecCache == InitCache /\ [][NextCache]_vars

(***************************************************************************)
(* SpecFail: the operations of the API objects over backing systems that   *)
(* fail.  outcome tells how each call ended.                               *)
(***************************************************************************)
InitFail ==
    /\ pc = "start"
    /\ call = NoCall
    /\ TraceIdle
    /\ prom \in {QuietSnapshot, AllRaise}
    /\ triage = NoTriage
    /\ ClientIdle
    /\ store = OneTraceStore
    /\ jaegerUp \in BOOLEAN
    /\ response = NoResponse
    /\ cluster = MkCluster(PodNames, ServiceNames)
    /\ k8sFault \in K8sFaults
    /\ neo4j \in Neo4jStates
    /\ targetEnv = "shop"
    /\ apis \in {HealthyApis, UncachedApis}
    /\ outcome = NoOutcome
    /\ touched = {}

\* What a call of SpecFail leaves alone, besides the variables it names.
FailIdle == UNCHANGED <<traceVars, store, jaegerUp, response, triageVars, k8sVars, clientVars, neo4j, targetEnv, touched>>

Ended(op, kind) == [op |-> op, kind |-> kind, created |-> {}]

\* A metrics dict is an error value when it has the key 'error' or the
\* text of an exception in place of a metric.
MetricsKind(data) ==
    IF "error" \in data.keys \/ \E m \in data.metricKeys : data.metrics[m].kind = "Error"
    THEN "error" ELSE "value"

CallGetPodMetrics ==
    \E pod_name \in {"cart-1", "ghost"} :
        /\ pc' = "get_pod_metrics"
        /\ call' = [op |-> "get_pod_metrics", pod_name |-> pod_name]
        /\ outcome' = Ended("get_pod_metrics", MetricsKind(get_pod_metrics(apis.prometheus, pod_name)))
        /\ UNCHANGED apis
        /\ FailIdle

CallGetPodMetricsRange ==
    \E pod_name \in {"cart-1", "ghost"} :
        /\ pc' = "get_pod_metrics_range"
        /\ call' = [op |-> "get_pod_metrics_range", pod_name |-> pod_name]
        /\ outcome' = Ended("get_pod_metrics_range",
                            MetricsKind(get_pod_metrics_range(apis.prometheus, pod_name)))
        /\ UNCHANGED apis
        /\ FailIdle

CallGetPodLogs ==
    \E pod_name \in {"cart-1", "ghost"}, tail \in {2, 100}, important \in BOOLEAN :
        LET logs == get_pod_logs(apis.log, pod_name, tail, important)
        IN /\ pc' = "get_pod_logs"
           /\ call' = [op |-> "get_pod_logs", pod_name |-> pod_name, tail |-> tail,
                       important |-> important]
           /\ outcome' = Ended("get_pod_logs",
                               IF logs.kind \in {"does not exist", "Failed to get logs"}
                               THEN "error" ELSE "value")
           /\ UNCHANGED apis
           /\ FailIdle

CallGetPodsFromService ==
    \E service \in ServiceNames :
        LET out == get_pods_from_service(apis.prometheus, service)
        IN /\ pc' = "get_pods_from_service"
           /\ call' = [op |-> "get_pods_from_service", service |-> service]
           /\ apis' = [apis EXCEPT !.prometheus.servicesCache = out.cache]
           /\ outcome' = Ended("get_pods_from_service", DictKind(out.ret.keys))
           /\ FailIdle

CallGetServicesFromPod ==
    \E pod_name \in PodNames :
        LET out == get_services_from_pod(apis.prometheus, pod_name)
        IN /\ pc' = "get_services_from_pod"
           /\ call' = [op |-> "get_services_from_pod", pod_name |-> pod_name]
           /\ apis' = [apis EXCEPT !.prometheus.podsCache = out.cache]
           /\ outcome' = Ended("get_services_from_pod", DictKind(out.ret.keys))
           /\ FailIdle

\* K8sAPI is a BaseK8sClient of the target namespace, as the LogAPI object.
CallGetProblematicPods ==
    /\ pc' = "get_problematic_pods"
    /\ call' = [op |-> "get_problematic_pods"]
    /\ outcome' = Ended("get_problematic_pods", get_problematic_pods(apis.log).kind)
    /\ UNCHANGED apis
    /\ FailIdle

CallGetJaegerTraces ==
    \E service \in {"cart", "ghost"}, only_errors \in BOOLEAN :
        LET traces == get_jaeger_traces(service, DefaultLimit, NoMinLatency, only_errors)
        IN /\ pc' = "get_jaeger_traces"
           /\ call' = [op |-> "get_jaeger_traces", service |-> service, only_errors |-> only_errors]
           /\ outcome' = Ended("get_jaeger_traces", IF traces.returned THEN "value" ELSE "error")
           /\ UNCHANGED apis
           /\ FailIdle

CallGetTrace ==
    \E trace_id \in {"t1", "t9"} :
        /\ pc' = "get_trace"
        /\ call' = [op |-> "get_trace", trace_id |-> trace_id]
        /\ outcome' = Ended("get_trace", IF get_trace(trace_id).returned THEN "value" ELSE "error")
        /\ UNCHANGED apis
        /\ FailIdle

\* DataGraph(uri, user, password): the object replaces the one held.
CallDataGraph ==
    LET made == NewDataGraph
    IN /\ pc' = "DataGraph"
       /\ call' = [op |-> "DataGraph"]
       /\ apis' = IF made.kind = "raised" THEN apis ELSE [apis EXCEPT !.datagraph = made.api]
       /\ outcome' = Ended("DataGraph", made.kind)
       /\ FailIdle

\* A query of a DataGraph that exists: get_services_used_by and
\* get_dependencies; a failed query gives an empty list or a text.
CallDataGraphQuery ==
    \E service \in {"frontend", "cart", "ghost"}, op \in {"get_services_used_by", "get_dependencies"} :
        LET answer == IF op = "get_services_used_by"
                      THEN get_services_used_by(apis.datagraph, service)
                      ELSE get_dependencies(apis.datagraph, service)
        IN /\ pc' = op
           /\ call' = [op |-> op, service |-> service]
           /\ outcome' = Ended(op, IF answer.kind = "str" \/ (answer.queried /\ neo4j.queryFails)
                                   THEN "error" ELSE "value")
           /\ UNCHANGED apis
           /\ FailIdle

NextFail ==
    \/ CallGetPodMetrics
    \/ CallGetPodMetricsRange
    \/ CallGetPodLogs
    \/ CallGetPodsFromService
    \/ CallGetServicesFromPod
    \/ CallGetProblematicPods
    \/ CallGetJaegerTraces
    \/ CallGetTrace
    \/ CallDataGraph
    \/ CallDataGraphQuery

SpecFail == InitFail /\ [][NextFail]_vars

(***************************************************************************)
(* SpecTools: the tools of the MCP server, called in any order from the    *)
(* start of the server, over backing systems that come and go.  touched    *)
(* is the set of backing systems the last tool call sent requests to.      *)
(***************************************************************************)
Tools ==
    {"get_metrics", "get_metrics_range", "get_pods_from_service", "get_cluster_overview",
     "get_services_used_by", "get_dependencies", "get_logs", "get_traces", "get_trace"}

ResourceNames == {"cart-1", "cart"}
ResourceTypes == {"pod", "service"}

InitTools ==
    /\ pc = "start"
    /\ call = NoCall
    /\ TraceIdle
    /\ TriageIdle
    /\ ClientIdle
    /\ store = OneTraceStore
    /\ jaegerUp = TRUE
    /\ response = NoResponse
    /\ cluster = MkCluster({"cart-1"}, ServiceNames)
    /\ k8sFault \in {"none", "ApiException"}
    /\ neo4j \in Neo4jStates
    /\ targetEnv = "shop"
    /\ apis = NoApis
    /\ outcome = NoOutcome
    /\ touched = {}

ToolsIdle == UNCHANGED <<traceVars, store, response, triageVars, cluster, clientVars, targetEnv>>

\* A tool call: get_apis, then the body of the tool on the objects it
\* returned (done); an exception of get_apis ends the call.
ToolCall(c, done) ==
    LET got == get_apis
    IN /\ pc' = c.op
       /\ call' = c
       /\ apis' = IF got.raised THEN got.apis ELSE done.apis
       /\ touched' = IF got.raised THEN got.touched ELSE got.touched \cup done.touched
       /\ outcome' = [op |-> c.op, kind |-> IF got.raised THEN "raised" ELSE done.kind,
                      created |-> got.created]
       /\ UNCHANGED <<k8sFault, jaegerUp, neo4j>>
       /\ ToolsIdle

GetMetrics ==
    \E resource_name \in ResourceNames, resource_type \in ResourceTypes :
        ToolCall([op |-> "get_metrics", resource_name |-> resource_name,
                  resource_type |-> resource_type],
                 get_metrics(get_apis.apis, resource_name, resource_type))

GetMetricsRange ==
    \E resource_name \in ResourceNames, resource_type \in ResourceTypes :
        ToolCall([op |-> "get_metrics_range", resource_name |-> resource_name,
                  resource_type |-> resource_type],
                 get_metrics_range(get_apis.apis, resource_name, resource_type))

ToolGetPodsFromService ==
    \E service_name \in {"cart", "ghost"} :
        ToolCall([op |-> "get_pods_from_service", service_name |-> service_name],
                 tool_get_pods_from_service(get_apis.apis, service_name))

GetClusterOverview ==
    ToolCall([op |-> "get_cluster_overview"], get_cluster_pods_and_services(get_apis.apis))

ToolGetServicesUsedBy ==
    \E service \in {"frontend", "ghost"} :
        ToolCall([op |-> "get_services_used_by", service |-> service],
                 tool_get_services_used_by(get_apis.apis, service))

ToolGetDependencies ==
    \E service \in {"frontend", "cart", "ghost"} :
        ToolCall([op |-> "get_dependencies", service |-> service],
                 tool_get_dependencies(get_apis.apis, service))

GetLogs ==
    \E resource_name \in ResourceNames, resource_type \in ResourceTypes :
        ToolCall([op |-> "get_logs", resource_name |-> resource_name,
                  resource_type |-> resource_type],
                 get_logs(get_apis.apis, resource_name, resource_type, DefaultTail, TRUE))

GetTraces ==
    \E service_name \in {"cart", "ghost"} :
        ToolCall([op |-> "get_traces", service_name |-> service_name],
                 get_traces(get_apis.apis, service_name, FALSE))

ToolGetTrace ==
    \E trace_id \in {"t1"} :
        ToolCall([op |-> "get_trace", trace_id |-> trace_id],
                 tool_get_trace(get_apis.apis, trace_id))

\* Kubernetes or Neo4j fails or recovers between two tool calls.
BackendChanges ==
    /\ \/ k8sFault' \in {"none", "ApiException"} /\ UNCHANGED neo4j
       \/ neo4j' \in Neo4jStates /\ UNCHANGED k8sFault
    /\ UNCHANGED jaegerUp
    /\ pc' = "backend"
    /\ call' = NoCall
    /\ UNCHANGED <<apis, outcome, touched>>
    /\ ToolsIdle

NextTools ==
    \/ GetMetrics
    \/ GetMetricsRange
    \/ ToolGetPodsFromService
    \/ GetClusterOverview
    \/ ToolGetServicesUsedBy
    \/ ToolGetDependencies
    \/ GetLogs
    \/ GetTraces
    \/ ToolGetTrace
    \/ BackendChanges

SpecTools == InitTools /\ [][NextTools]_vars

(***************************************************************************)
(* SpecLogs: LogAPI.get_pod_logs over the logs a pod may hold.             *)
(***************************************************************************)
InitLogs ==
    /\ pc = "start"
    /\ call = NoCall
    /\ TraceIdle
    /\ JaegerIdle
    /\ TriageIdle
    /\ ClientIdle
    /\ ServerIdle
    /\ \E log \in PodLogs :
          cluster = [MkCluster(PodNames, ServiceNames) EXCEPT !.logs["cart-1"] = log]
    /\ k8sFault \in {"none", "other"}

GetPodLogs ==
    /\ pc = "start"
    /\ \E pod_name \in {"cart-1", "ghost"}, tail \in {1, DefaultTail}, important \in BOOLEAN :
          /\ call' = [op |-> "get_pod_logs", pod_name |-> pod_name, tail |-> tail,
                      important |-> important]
          /\ ret' = get_pod_logs(apis.log, pod_name, tail, important)
    /\ pc' = "get_pod_logs"
    /\ UNCHANGED <<traceVars, jaegerVars, triageVars, k8sVars, namespace, podsCache,
                   servicesCache, serverVars>>

SpecLogs == InitLogs /\ [][GetPodLogs]_vars

(***************************************************************************)
(* SpecMetrics: the tool get_metrics with resource_type 'pod' over the     *)
(* series Prometheus holds for the pods of the namespace.                  *)
(***************************************************************************)
InitMetrics ==
    /\ pc = "start"
    /\ call = NoCall
    /\ TraceIdle
    /\ JaegerIdle
    /\ K8sIdle
    /\ ClientIdle
    /\ prom \in SeriesSnapshots
    /\ triage = NoTriage
    /\ neo4j = HealthyNeo4j
    /\ targetEnv = "shop"
    /\ apis = [HealthyApis EXCEPT !.prometheus.pods = {"cart-1", "cart-10"}]
    /\ outcome = NoOutcome
    /\ touched = {}

\* get_metrics(resource_name, 'pod'): api.get_pod_metrics(resource_name).
GetMetricsOfPod ==
    /\ pc = "start"
    /\ \E resource_name \in {"cart-1", "cart-10", "ghost"} :
          /\ call' = [op |-> "get_metrics", resource_name |-> resource_name,
                      resource_type |-> "pod"]
          /\ ret' = get_pod_metrics(apis.prometheus, resource_name)
    /\ pc' = "get_metrics"
    /\ UNCHANGED <<traceVars, jaegerVars, triageVars, k8sVars, namespace, podsCache,
                   servicesCache, serverVars>>

SpecMetrics == InitMetrics /\ [][GetMetricsOfPod]_vars

(***************************************************************************)
(* SpecNamespaces: JaegerAPI() in a cluster with services in several       *)
(* namespaces, under each value of TARGET_NAMESPACE, and the calls that    *)
(* check a service name against the list the object holds.                 *)
(***************************************************************************)
\* The service a namespace may hold.
HomeService(n) == IF n = "shop" THEN "cart" ELSE IF n = "infra" THEN "jaeger" ELSE "kubernetes"

NamespacedClusters ==
    {[MkCluster({}, {}) EXCEPT !.services = [n \in Namespaces |-> IF n \in held THEN {HomeService(n)} ELSE {}]] :
        held \in SUBSET Namespaces}

\* Every service of the cluster, whatever its namespace.
ClusterServices == UNION {cluster.services[n] : n \in Namespaces}

InitNamespaces ==
    /\ pc = "start"
    /\ call = NoCall
    /\ TraceIdle
    /\ TriageIdle
    /\ ClientIdle
    /\ store = OneTraceStore
    /\ jaegerUp = TRUE
    /\ response = NoResponse
    /\ cluster \in NamespacedClusters
    /\ k8sFault = "none"
    /\ neo4j = HealthyNeo4j
    /\ targetEnv \in {""} \cup Namespaces
    /\ apis = [HealthyApis EXCEPT !.jaeger = NoApi]
    /\ outcome = NoOutcome
    /\ touched = {}

\* jaeger_api = JaegerAPI(config.jaeger_url)
NewJaegerAPI ==
    /\ pc = "start"
    /\ apis' = [apis EXCEPT !.jaeger = JaegerAPI]
    /\ pc' = "JaegerAPI"
    /\ call' = [op |-> "JaegerAPI"]
    /\ UNCHANGED <<traceVars, jaegerVars, triageVars, k8sVars, clientVars, neo4j, targetEnv,
                   outcome, touched>>

JaegerGetProcessedTraces ==
    /\ pc = "JaegerAPI"
    /\ \E service \in {HomeService(n) : n \in Namespaces}, only_errors \in BOOLEAN :
          /\ call' = [op |-> "get_processed_traces", service |-> service,
                      only_errors |-> only_errors, min_duration_ms |-> NoMinLatency]
          /\ response' = get_processed_traces(apis.jaeger, service, only_errors)
    /\ pc' = "get_processed_traces"
    /\ UNCHANGED <<traceVars, store, jaegerUp, triageVars, k8sVars, clientVars, serverVars>>

JaegerGetSlowTraces ==
    /\ pc = "JaegerAPI"
    /\ \E service \in {HomeService(n) : n \in Namespaces}, only_errors \in BOOLEAN :
          /\ call' = [op |-> "get_slow_traces", service |-> service,
                      only_errors |-> only_errors, min_duration_ms |-> NoMinLatency]
          /\ response' = get_slow_traces(apis.jaeger, service, NoMinLatency, only_errors)
    /\ pc' = "get_slow_traces"
    /\ UNCHANGED <<traceVars, store, jaegerUp, triageVars, k8sVars, clientVars, serverVars>>

NextNamespaces == NewJaegerAPI \/ JaegerGetProcessedTraces \/ JaegerGetSlowTraces

SpecNamespaces == InitNamespaces /\ [][NextNamespaces]_vars

(***************************************************************************)
(* SpecSelectors: get_services_from_pod over the labels a pod and the      *)
(* selectors the services of its namespace may have.                       *)
(***************************************************************************)
InitSelectors ==
    /\ pc = "start"
    /\ call = NoCall
    /\ TraceIdle
    /\ JaegerIdle
    /\ TriageIdle
    /\ cluster \in LabelledClusters
    /\ k8sFault \in {"none", "other"}
    /\ namespace = "shop"
    /\ podsCache = NoneCache
    /\ servicesCache = NoneCache
    /\ ret = NoRet
    /\ ServerIdle

SpecSelectors == InitSelectors /\ [][GetServicesFromPod]_vars

(***************************************************************************)
(* Claims about process_trace, checked under SpecTrace.                    *)
(***************************************************************************)
C1_Roots == {i \in DOMAIN trace.spans :
                ~trace.spans[i].hasReferences \/ Len(trace.spans[i].references) = 0}

\* C1: process_trace takes as root span the first span, in the order of
\* trace['spans'], whose 'references' is absent or empty, and reports
\* latency_ms = that span's duration / 1000; when every span has non-empty
\* references it returns None.
C1_RootSpanAndLatency ==
    pc = "process_trace" =>
        /\ C1_Roots = {} => result.returned = "None"
        /\ C1_Roots # {} =>
               LET first == CHOOSE i \in C1_Roots : \A j \in C1_Roots : i <= j
               IN /\ result.returned = "dict"
                  /\ result.latency_ms.thousandths \in 0..999
                  /\ 1000 * result.latency_ms.whole + result.latency_ms.thousandths
                        = trace.spans[first].duration

\* A trace whose first span is a child and which has two root spans of
\* different durations has been processed.
C1_Witness ==
    /\ pc = "process_trace"
    /\ result.returned = "dict"
    /\ Len(trace.spans) = 3
    /\ 1 \notin C1_Roots /\ 2 \in C1_Roots /\ 3 \in C1_Roots
    /\ trace.spans[2].duration = 1500 /\ trace.spans[3].duration = 750

\* The position a span takes when the spans are put in ascending startTime
\* order, ties in the order of trace['spans'].
C2_Rank(spans, i) ==
    1 + Cardinality({j \in DOMAIN spans :
                        \/ spans[j].startTime < spans[i].startTime
                        \/ spans[j].startTime = spans[i].startTime /\ j < i})

C2_Ordered(spans) ==
    [k \in 1..Len(spans) |-> spans[CHOOSE i \in DOMAIN spans : C2_Rank(spans, i) = k]]

C2_KnownNames(tr) ==
    LET known == SelectSeq(C2_Ordered(tr.spans), LAMBDA s : s.processID \in DOMAIN tr.processes)
    IN [k \in 1..Len(known) |-> tr.processes[known[k].processID].serviceName]

RECURSIVE C2_Collapse(_)
C2_Collapse(names) ==
    IF Len(names) <= 1 THEN names
    ELSE IF names[1] = names[2] THEN C2_Collapse(Tail(names))
    ELSE <<names[1]>> \o C2_Collapse(Tail(names))

\* C2: 'sequence' is the service names of the spans in ascending startTime
\* order (ties in the order of trace['spans']), spans of unknown processID
\* skipped, runs of equal names collapsed, joined by ' -> '; no two adjacent
\* names of the sequence are equal.
C2_ServiceSequence ==
    (pc = "process_trace" /\ result.returned = "dict") =>
        LET names == C2_Collapse(C2_KnownNames(trace))
            n == Len(names)
            seq == result.sequence
        IN /\ Len(seq) = (IF n = 0 THEN 0 ELSE 2 * n - 1)
           /\ \A k \in 1..n : seq[2 * k - 1] = names[k]
           /\ \A k \in 1..(n - 1) : seq[2 * k] = " -> "
           /\ \A k \in 1..(n - 1) : seq[2 * k - 1] # seq[2 * k + 1]

\* Three spans given out of start order, one of an unknown process, two of
\* the same service: the sequence is "frontend -> cart".
C2_Witness ==
    /\ pc = "process_trace"
    /\ Len(trace.spans) = 3
    /\ trace.spans[1].startTime > trace.spans[2].startTime
    /\ \E i \in DOMAIN trace.spans : trace.spans[i].processID \notin DOMAIN trace.processes
    /\ trace.spans[1].processID = "p2"
    /\ result.sequence = <<"frontend", " -> ", "cart">>

\* A tag that marks its span as failed: key 'error' with the value true,
\* as the boolean or as the text "true" the error query of
\* get_jaeger_traces asks for.
C3_MarksFailed(tag) == tag.key = "error" /\ tag.value = "true"

C3_ContainsErrors(tr) ==
    \E i \in DOMAIN tr.spans : \E k \in DOMAIN tr.spans[i].tags : C3_MarksFailed(tr.spans[i].tags[k])

\* C3: has_error is true iff at least one span of the trace carries an
\* 'error' tag marking it as failed, and 'error_message' is a key of the
\* result iff has_error is true.
C3_HasErrorIffErrorTag ==
    (pc = "process_trace" /\ result.returned = "dict") =>
        /\ result.has_error <=> C3_ContainsErrors(trace)
        /\ "error_message" \in result.keys <=> result.has_error

(***************************************************************************)
(* Claims about the trace queries, checked under SpecJaeger.               *)
(***************************************************************************)
\* C10: with only_errors=True every entry of the returned 'traces' list has
\* has_error = true.
C10_OnlyErrorTraces ==
    (pc \in {"get_processed_traces", "get_slow_traces"} /\ call.only_errors) =>
        \A k \in DOMAIN response.traces : response.traces[k].has_error


\* min_duration_ms in microseconds, the unit of LatencyKey.
C11_Threshold == 1000 * call.min_duration_ms.whole + call.min_duration_ms.thousandths

\* C11: every entry of the 'traces' list get_slow_traces returns has
\* latency_ms >= min_duration_ms, fractional thresholds included.
C11_AtLeastMinDuration ==
    pc = "get_slow_traces" =>
        \A k \in DOMAIN response.traces : LatencyKey(response.traces[k]) >= C11_Threshold

\* What get_slow_traces fetched from Jaeger for the last call.
C12_Fetched ==
    get_jaeger_traces(call.service, SlowLimit, call.min_duration_ms, call.only_errors).traces

\* The results process_trace returned for the fetched traces, in fetch order.
C12_Processed == ProcessAll(C12_Fetched)

C12_Listed == pc = "get_slow_traces" /\ "traces_count" \in response.keys

\* How often an entry occurs in a list.
C12_Count(list, data) == Cardinality({k \in DOMAIN list : list[k] = data})

\* C12: the 'traces' list of get_slow_traces is sorted slowest first, holds
\* exactly the fetched traces for which process_trace returned a result, and
\* traces_count is its length.
C12_SortedSlowestFirst ==
    C12_Listed =>
        /\ \A k \in 1..(Len(response.traces) - 1) :
              LatencyKey(response.traces[k]) >= LatencyKey(response.traces[k + 1])
        /\ Len(response.traces) = Len(C12_Processed)
        /\ \A k \in DOMAIN C12_Processed :
              C12_Count(response.traces, C12_Processed[k])
                  = C12_Count(C12_Processed, C12_Processed[k])
        /\ response.traces_count = Len(response.traces)

\* Two traces were fetched faster first, and the list has them slower first.
C12_Witness ==
    /\ C12_Listed
    /\ Len(response.traces) = 2
    /\ LatencyKey(C12_Processed[1]) < LatencyKey(C12_Processed[2])
    /\ response.traces[1] = C12_Processed[2]

(***************************************************************************)
(* Claims about the pod triage, checked under SpecTriage.                  *)
(***************************************************************************)
TriageReturned == pc = "get_pod_triage_metrics" /\ ~triage.raised

\* C4: in every result of get_pod_triage_metrics is_anomalous is true iff
\* 'reasons' is non-empty; for a pod that fails the existence check the
\* result is anomalous with exactly one reason (the error text) and an empty
\* checked_metrics.
C4_AnomalousIffReasons ==
    TriageReturned =>
        /\ triage.is_anomalous <=> Len(triage.reasons) > 0
        /\ call.pod_name \notin PromPods =>
              /\ triage.is_anomalous
              /\ Len(triage.reasons) = 1
              /\ triage.reasons[1].level = "error"
              /\ triage.checked_metrics = {}

\* An existing pod has been triaged with two reasons or more.
C4_Witness ==
    /\ TriageReturned
    /\ call.pod_name \in PromPods
    /\ Len(triage.reasons) >= 2
    /\ triage.is_anomalous

C5_Present(metric) == prom[metric].does \in {"sample", "raise"}

C5_Critical == \E k \in DOMAIN triage.reasons : triage.reasons[k].level = "CRITICAL"

\* C5: the thread rule adds its CRITICAL reason iff container_threads and
\* container_threads_max are both present, container_threads_max > 0 and
\* 100 * threads > 95 * threads_max; a ratio of exactly 0.95 is not flagged
\* and container_threads_max = 0 leads to no division and no reason.
C5_ThreadSaturation ==
    (pc = "get_pod_triage_metrics" /\ call.pod_name \in PromPods) =>
        LET t == prom["container_threads"]
            tm == prom["container_threads_max"]
        IN /\ ~triage.raised =>
                (C5_Critical <=>
                    /\ C5_Present("container_threads") /\ C5_Present("container_threads_max")
                    /\ t.does = "sample" /\ tm.does = "sample"
                    /\ tm.v > 0
                    /\ 100 * t.v > 95 * tm.v)
           /\ (tm = [does |-> "sample", v |-> 0]
                 /\ \A m \in DOMAIN prom : m # "container_threads" => prom[m].does # "raise")
                => ~triage.raised /\ ~C5_Critical

\* A pod with 19 threads of at most 20 (a ratio of exactly 0.95) has been
\* triaged.
C5_Witness ==
    /\ TriageReturned
    /\ call.pod_name \in PromPods
    /\ prom["container_threads"] = [does |-> "sample", v |-> 19]
    /\ prom["container_threads_max"] = [does |-> "sample", v |-> 20]
    /\ ~C5_Critical

C6_Counters ==
    <<"container_network_receive_errors_total", "container_network_transmit_errors_total",
      "container_network_receive_packets_dropped_total",
      "container_network_transmit_packets_dropped_total">>

C6_NonZero(k) == prom[C6_Counters[k]].does = "sample" /\ prom[C6_Counters[k]].v # 0

C6_InfoReasons == SelectSeq(triage.reasons, LAMBDA r : r.level = "INFO")

\* C6: for each of the four counters (receive errors, transmit errors,
\* dropped received packets, dropped transmitted packets), whenever its
\* value is present and non-zero the pod is marked anomalous and one INFO
\* reason for that counter is added, in that counter order.
C6_AnyErrorOrDrop ==
    (TriageReturned /\ call.pod_name \in PromPods) =>
        LET flagged == SelectSeq(<<1, 2, 3, 4>>, C6_NonZero)
        IN /\ Len(C6_InfoReasons) = Len(flagged)
           /\ \A i \in 1..Len(flagged) : C6_InfoReasons[i].metric = C6_Counters[flagged[i]]
           /\ flagged # << >> => triage.is_anomalous

(***************************************************************************)
(* Claims about the caches of BaseK8sClient, checked under SpecCache.      *)
(***************************************************************************)
C8_ListCall(op) == pc' = op
C8_DefaultListCall(op) == pc' = op /\ call'.use_cache
C8_UncachedListCall(op) == pc' = op /\ ~call'.use_cache

\* C8: after a successful get_pods_list (resp. get_services_list) every
\* later call returns the stored list and issues no Kubernetes request, and
\* the stored list is changed by no operation other than refresh_cache;
\* after refresh_cache the next call queries Kubernetes again.
C8_ComputeOnce ==
    [][/\ (podsCache.set /\ C8_ListCall("get_pods_list"))
            => (ret'.names = podsCache.items /\ ret'.requests = 0)
       /\ (servicesCache.set /\ C8_ListCall("get_services_list"))
            => (ret'.names = servicesCache.items /\ ret'.requests = 0)
       /\ (podsCache.set /\ podsCache' # podsCache) => pc' = "refresh_cache"
       /\ (servicesCache.set /\ servicesCache' # servicesCache) => pc' = "refresh_cache"
       /\ (pc = "refresh_cache" /\ pc' \in {"get_pods_list", "get_services_list"})
            => ret'.requests = 1]_vars

\* C8 as amended: the same of every later call with use_cache=True (the
\* default); a call with use_cache=False queries Kubernetes and is the one
\* operation besides refresh_cache that changes the stored list.
C8_ComputeOnceUnlessBypassed ==
    [][/\ (podsCache.set /\ C8_DefaultListCall("get_pods_list"))
            => (ret'.names = podsCache.items /\ ret'.requests = 0 /\ podsCache' = podsCache)
       /\ (servicesCache.set /\ C8_DefaultListCall("get_services_list"))
            => (ret'.names = servicesCache.items /\ ret'.requests = 0
                /\ servicesCache' = servicesCache)
       /\ (podsCache.set /\ podsCache' # podsCache)
            => (pc' = "refresh_cache" \/ C8_UncachedListCall("get_pods_list"))
       /\ (servicesCache.set /\ servicesCache' # servicesCache)
            => (pc' = "refresh_cache" \/ C8_UncachedListCall("get_services_list"))
       /\ C8_UncachedListCall("get_pods_list") => ret'.requests = 1
       /\ C8_UncachedListCall("get_services_list") => ret'.requests = 1
       /\ (pc = "refresh_cache" /\ pc' \in {"get_pods_list", "get_services_list"})
            => ret'.requests = 1]_vars

\* A default get_pods_list has answered from the stored list, without a
\* request, although the cluster's pods are no longer those stored.
C8_Witness ==
    /\ pc = "get_pods_list"
    /\ call.use_cache
    /\ podsCache.set
    /\ ret.requests = 0
    /\ ret.names = podsCache.items
    /\ podsCache.items # cluster.pods[namespace]

(***************************************************************************)
(* Failure handling                                                        *)
(***************************************************************************)
\* C7: whenever a backing system raises during get_pod_metrics,
\* get_pod_metrics_range, get_pod_logs, get_pods_from_service,
\* get_services_from_pod, get_problematic_pods, get_jaeger_traces, get_trace
\* or a DataGraph query or construction, the operation returns an error
\* value and no exception reaches its caller.
C7_NoExceptionPropagates == outcome.kind # "raised"

(***************************************************************************)
(* Tool calls and the backing systems                                      *)
(***************************************************************************)
C9_ToolCalled == outcome.op \in Tools /\ pc \in Tools

\* C9: each tool call sends requests to exactly one backing system among
\* Kubernetes, Prometheus, Jaeger and Neo4j, the first call included.
C9_ExactlyOneSystem == C9_ToolCalled => Cardinality(touched) = 1

\* The backing systems a call of a tool may send requests to once the API
\* objects exist.
C9_SystemsOf(c) ==
    IF c.op \in {"get_metrics", "get_metrics_range"}
    THEN IF c.resource_type = "pod" THEN {"Prometheus"} ELSE {"Kubernetes", "Prometheus"}
    ELSE IF c.op \in {"get_pods_from_service", "get_cluster_overview", "get_logs"}
    THEN {"Kubernetes"}
    ELSE IF c.op \in {"get_services_used_by", "get_dependencies"} THEN {"Neo4j"}
    ELSE {"Jaeger"}

\* C9 (amended): a tool call that finds the four API objects created sends
\* requests to at most one backing system, the one of its tool, except
\* get_metrics and get_metrics_range with resource_type 'service', which
\* send requests to Kubernetes and to Prometheus; the call that creates
\* the four objects sends requests to Kubernetes and to Neo4j besides.
C9_OneSystemOnceCreated ==
    [][pc' \in Tools =>
          /\ Missing(apis) = {} =>
                /\ touched' \subseteq C9_SystemsOf(call')
                /\ outcome'.created = {}
                /\ outcome'.kind # "raised"
          /\ (Missing(apis) = ApiNames /\ outcome'.kind # "raised") =>
                /\ outcome'.created = ApiNames
                /\ {"Kubernetes", "Neo4j"} \subseteq touched']_vars

\* A get_metrics of a service, called when the four API objects exist, has
\* created no object and has sent requests to Kubernetes and Prometheus.
C9_Witness ==
    /\ C9_ToolCalled
    /\ call.op = "get_metrics"
    /\ call.resource_type = "service"
    /\ outcome.created = {}
    /\ touched = {"Kubernetes", "Prometheus"}

(***************************************************************************)
(* Claims about the log filter, checked under SpecLogs.                    *)
(***************************************************************************)
\* get_pod_logs(important=True) has read the log of an existing pod.
LogsFiltered ==
    /\ pc = "get_pod_logs"
    /\ call.important
    /\ ret.kind \notin {"does not exist", "Failed to get logs"}

\* The lines Kubernetes returned for the last call.
LinesRead == TailLines(PodLog(call.pod_name), call.tail)

\* The line contains a keyword of important_keywords, in any letter case.
HasKeyword(line) ==
    \E k \in DOMAIN important_keywords : Contains(Upper(line), Upper(important_keywords[k]))

C14_CaseInsensitiveFilter ==
    LogsFiltered =>
        LET kept == SelectSeq(LinesRead, HasKeyword)
        IN IF kept # << >>
           THEN /\ ret.kind = "Found N important log entries"
                /\ ret.lines = kept
                /\ ret.count = Len(kept)
           ELSE ret.kind = "No important log entries found"

(***************************************************************************)
(* Claims about the metrics of a pod, checked under SpecMetrics.           *)
(***************************************************************************)
\* C15: get_metrics with resource_type 'pod' returns the metrics of the pod
\* of the exact name: every metric reported as a number is a sample whose
\* pod label equals resource_name, also when other pods of the namespace
\* have names that contain resource_name.
C15_MetricsOfExactPod ==
    (pc = "get_metrics" /\ call.resource_type = "pod") =>
        \A m \in ret.metricKeys :
            ret.metrics[m].kind = "float" => ret.metrics[m].v = SampleOf(call.resource_name)

(***************************************************************************)
(* Claims about the dependency graph tools, checked under SpecTools.       *)
(***************************************************************************)
\* The get_dependencies tool has answered from a DataGraph object that
\* holds the services of the graph, with Neo4j answering its queries.
C16_Answered ==
    /\ pc = "get_dependencies"
    /\ outcome.kind # "raised"
    /\ ~neo4j.queryFails
    /\ apis.datagraph.services = GraphServices

\* C16: the get_dependencies tool returns an 'error' key only in the error
\* case: for every service of the dependency graph, a service with zero USES
\* relationships included, the result has 'dependencies' and a summary and
\* no 'error' key; for a service not in the graph it has an 'error' key.
C16_ErrorOnlyForUnknownService ==
    C16_Answered => (outcome.kind = "error" <=> call.service \notin GraphServices)

(***************************************************************************)
(* Claims about the namespace of JaegerAPI, checked under SpecNamespaces.  *)
(***************************************************************************)
\* A call has checked its service name against the list of the object.
C17_NameChecked == pc \in {"get_processed_traces", "get_slow_traces"}

\* C17: JaegerAPI is initialised with namespace=None so that its service
\* list covers all namespaces: the list get_processed_traces and
\* get_slow_traces check service names against holds the services of every
\* namespace of the cluster, whatever TARGET_NAMESPACE is.
C17_ServicesOfAllNamespaces ==
    /\ apis.jaeger.created => apis.jaeger.services = ClusterServices
    /\ (C17_NameChecked /\ call.service \in ClusterServices) => "error" \notin response.keys

(***************************************************************************)
(* Claims about get_services_from_pod, checked under SpecSelectors.        *)
(***************************************************************************)
\* pod_labels.get(k): the label of the key, "None" without one.
LabelGet(labels, k) ==
    IF \E kv \in labels : kv[1] = k THEN (CHOOSE kv \in labels : kv[1] = k)[2] ELSE "None"

\* The selector is non-empty and each of its pairs equals the label of its key.
SelectsByEquality(selector, labels) ==
    /\ selector # {}
    /\ \A kv \in selector : LabelGet(labels, kv[1]) = kv[2]

\* get_services_from_pod has answered for a pod that exists, with
\* Kubernetes answering.
C18_AnsweredForPod ==
    /\ pc = "get_services_from_pod"
    /\ K8sUp
    /\ call.pod_name \in cluster.pods[namespace]

\* C18: get_services_from_pod uses selector-to-label equality: for an
\* existing pod with at least one label, a service of the namespace is in
\* 'services' if and only if its selector is non-empty and every key/value
\* pair of the selector equals the pod's label for that key; 'info' is
\* present exactly when no service matched and no error occurred; a pod
\* without labels yields an 'error' and an empty 'services' list.
C18_SelectorLabelEquality ==
    /\ pc = "get_services_from_pod" =>
          ("info" \in ret.keys <=> (ret.names = {} /\ "error" \notin ret.keys))
    /\ C18_AnsweredForPod =>
          IF cluster.labels[call.pod_name] = {}
          THEN "error" \in ret.keys /\ ret.names = {}
          ELSE /\ "error" \notin ret.keys
               /\ ret.names = {s \in cluster.services[namespace] :
                                 SelectsByEquality(cluster.selectors[s],
                                                   cluster.labels[call.pod_name])}

\* A selector of two pairs of which the pod has one only, and a selector
\* that matches, for a pod with labels.
C18_Witness ==
    /\ C18_AnsweredForPod
    /\ call.pod_name = "cart-1"
    /\ Cardinality(cluster.selectors["cart"]) = 2
    /\ \E kv \in cluster.selectors["cart"] : kv \in cluster.labels["cart-1"]
    /\ \E kv \in cluster.selectors["cart"] : kv \notin cluster.labels["cart-1"]
    /\ ret.names = {"headless"}

=============================================================================
